---------------------------- MODULE Spec2Model ----------------------------
(***************************************************************************)
(* A model of the client API layer of PySyft (syft/client/api.py and      *)
(* syft/service/response.py): the process-wide APIRegistry, the signed    *)
(* envelope, the invocation pipeline of a remote stub and the proxy-tree  *)
(* builder.  Each subsystem has its own specification over the shared     *)
(* variables; the variables of the other subsystems stay at rest.         *)
(***************************************************************************)
EXTENDS Integers, Sequences, FiniteSets, TLC

VARIABLES
    api_registry,   \* APIRegistry.__api_registry__: an OrderedDict
    setLog,         \* history: the set_api_for calls made, oldest first
    lookup,         \* the last registry query and what it returned
    rd,             \* a thread inside get_by_recent_node_uid
    signed,         \* the object on the wire: a SignedSyftAPICall, or not one
    origin,         \* history: who signed it over what, and how it was altered
    validity,       \* what is_valid returned for the object on the wire
    deboxed,        \* what debox_signed_syftapicall_response did and returned
    stub,           \* the remote stub being called
    called,         \* the arguments of the call made on the stub
    callOut,        \* what the call returned, and the steps it went through
    wire,           \* the signed calls handed to the transport, oldest first
    heap,           \* the APIModule and stub objects made so far
    syft_api,       \* the session (a SyftAPI), or none yet
    trees,          \* history: the trees each generate_endpoints installed
    builds,         \* how often generate_endpoints has run
    treeOut,        \* what the last operation on the session did
    rebuild,        \* where a generate_endpoints running in steps stands
    reader,         \* the trees another thread read off the session
    lastCall,       \* the last make_call: its session, reply and outcome
    TraceResult,    \* the ambient trace: its client and its buffer of actions
    libCall,        \* the call made on a library stub, and its outcome
    downgraded,     \* the signature last downgraded, and what came back
    responses,      \* the response messages made so far, with their views
    create_model,   \* the CreateModel under construction
    assetOut,       \* the last add_asset or remove_asset, and what it returned
    model_ref,      \* a ModelRef: its ids, its stored hash and its ref_objs
    action_store,   \* the action store the ids of the ModelRef point into
    hashOut         \* the last operation on the ModelRef, and its outcome

regVars == <<api_registry, setLog, lookup, rd>>
envVars == <<signed, origin, validity, deboxed>>
callVars == <<stub, called, callOut, wire>>
treeVars == <<heap, syft_api, trees, builds, treeOut>>
rebuildVars == <<rebuild, reader>>
libVars == <<TraceResult, libCall>>
sigVars == <<downgraded>>
assetVars == <<create_model, assetOut>>
refVars == <<model_ref, action_store, hashOut>>
tailVars == <<responses, create_model, assetOut, model_ref, action_store,
              hashOut>>
laterVars == <<rebuild, reader, lastCall, TraceResult, libCall, downgraded,
               responses, create_model, assetOut, model_ref, action_store,
               hashOut>>

vars == <<api_registry, setLog, lookup, rd, signed, origin, validity, deboxed,
          stub, called, callOut, wire, heap, syft_api, trees, builds,
          treeOut, rebuild, reader, lastCall, TraceResult, libCall,
          downgraded, responses, create_model, assetOut, model_ref,
          action_store, hashOut>>

None == "None"
PyNone == [type |-> "NoneType"]

(***************************************************************************)
(* Generic helpers.                                                        *)
(***************************************************************************)
Range(s) == {s[i] : i \in 1..Len(s)}

(***************************************************************************)
(*                              APIRegistry                                *)
(***************************************************************************)
MaxSets == 3

NodeIds == {"n1", "n2"}
KeyIds == {"vkA", "vkB"}
Sessions == {"api1", "api2"}

\* A UID or a verify key is passed as the object or as its string form.
Obj(id) == [form |-> "obj", id |-> id]
Str(id) == [form |-> "str", id |-> id]
Forms(ids) == {Obj(i) : i \in ids} \cup {Str(i) : i \in ids}

from_string(s) == [form |-> "obj", id |-> s.id]

\* OrderedDict: the items in insertion order, and od_state, which CPython
\* bumps each time a node is added (not when an existing key is re-bound).
EmptyOd == [items |-> <<>>, od_state |-> 0]

OdIndex(od, key) ==
    IF \E i \in 1..Len(od.items) : od.items[i].key = key
    THEN CHOOSE i \in 1..Len(od.items) : od.items[i].key = key
    ELSE 0

OdSetItem(od, key, value) ==
    LET i == OdIndex(od, key)
    IN IF i = 0
       THEN [items |-> Append(od.items, [key |-> key, value |-> value]),
             od_state |-> od.od_state + 1]
       ELSE [od EXCEPT !.items[i].value = value]

OdGet(od, key, default) ==
    LET i == OdIndex(od, key)
    IN IF i = 0 THEN default ELSE od.items[i].value

\* Mutant: the key drops the caller's verify key.
set_api_for_KeyedByNode(reg, node_uid, user_verify_key, api) ==
    LET n == IF node_uid.form = "str" THEN from_string(node_uid) ELSE node_uid
    IN OdSetItem(reg, <<n, Obj("any")>>, api)

set_api_for(reg, node_uid, user_verify_key, api) ==
    LET n == IF node_uid.form = "str" THEN from_string(node_uid) ELSE node_uid
        k == IF user_verify_key.form = "str"
             THEN from_string(user_verify_key) ELSE user_verify_key
        key == <<n, k>>
    IN OdSetItem(reg, key, api)

api_for(reg, node_uid, user_verify_key) ==
    OdGet(reg, <<node_uid, user_verify_key>>, None)

get_all_api(reg) == [i \in 1..Len(reg.items) |-> reg.items[i].value]

\* for key, api in reversed(items): the first match from the end.
get_by_recent_node_uid(reg, node_uid) ==
    LET hits == {i \in 1..Len(reg.items) : reg.items[i].key[1] = node_uid}
    IN IF hits = {} THEN None
       ELSE reg.items[CHOOSE i \in hits : \A j \in hits : j <= i].value

NoLookup == [op |-> "none"]
RdIdle == [pc |-> "idle"]

RegistryInit ==
    /\ api_registry = EmptyOd
    /\ setLog = <<>>
    /\ lookup = NoLookup
    /\ rd = RdIdle

SetApiFor(node_uid, user_verify_key, api) ==
    /\ Len(setLog) < MaxSets
    /\ api_registry' = set_api_for(api_registry, node_uid, user_verify_key, api)
    /\ setLog' = Append(setLog, <<node_uid.id, user_verify_key.id, api>>)
    /\ lookup' = NoLookup

ApiFor(n, k) ==
    /\ lookup' = [op |-> "api_for", node |-> n, key |-> k,
                  result |-> api_for(api_registry, Obj(n), Obj(k))]
    /\ UNCHANGED <<api_registry, setLog>>

GetAllApi ==
    /\ lookup' = [op |-> "get_all_api", result |-> get_all_api(api_registry)]
    /\ UNCHANGED <<api_registry, setLog>>

GetByRecentNodeUid(n) ==
    /\ lookup' = [op |-> "get_by_recent_node_uid", node |-> n,
                  result |-> get_by_recent_node_uid(api_registry, Obj(n))]
    /\ UNCHANGED <<api_registry, setLog>>

RegNext ==
    \/ \E nu \in Forms(NodeIds), vk \in Forms(KeyIds), api \in Sessions :
          SetApiFor(nu, vk, api) /\ UNCHANGED rd /\ UNCHANGED <<envVars, callVars, treeVars, laterVars>>
    \/ \E n \in NodeIds, k \in KeyIds :
          ApiFor(n, k) /\ UNCHANGED rd /\ UNCHANGED <<envVars, callVars, treeVars, laterVars>>
    \/ GetAllApi /\ UNCHANGED rd /\ UNCHANGED <<envVars, callVars, treeVars, laterVars>>
    \/ \E n \in NodeIds :
          GetByRecentNodeUid(n) /\ UNCHANGED rd /\ UNCHANGED <<envVars, callVars, treeVars, laterVars>>

\* What the history says: the session of the latest call matching a filter.
LastIn(log, Match(_)) ==
    LET hits == {i \in 1..Len(log) : Match(log[i])}
    IN IF hits = {} THEN None
       ELSE log[CHOOSE i \in hits : \A j \in hits : j <= i][3]

LastForPair(n, k) == LastIn(setLog, LAMBDA e : e[1] = n /\ e[2] = k)
LastForNode(n) == LastIn(setLog, LAMBDA e : e[1] = n)

(***************************************************************************)
(*                        Response messages (response.py)                  *)
(***************************************************************************)
\* _bool as each class declares it.
ClassBool(cls) ==
    CASE cls = "SyftResponseMessage" -> TRUE
      [] cls = "SyftError" -> FALSE
      [] cls = "SyftSuccess" -> TRUE
      [] cls = "SyftNotReady" -> FALSE
      [] cls = "SyftWarning" -> TRUE
      [] cls = "SyftInfo" -> FALSE

\* A message is a record: its fixed text and the values formatted into it.
Text(t) == [text |-> t]
SyftError(message) ==
    [cls |-> "SyftError", message |-> message, tb |-> PyNone]
SyftSuccess(message) == [cls |-> "SyftSuccess", message |-> message]

IsResponse(x) == "cls" \in DOMAIN x

\* Mutant: no __bool__ at all, so every object is true.
Truthy_ObjectDefault(r) == TRUE

\* bool(r): SyftError (and SyftNotReady, which inherits it) overrides __bool__.
Truthy(r) ==
    IF r.cls \in {"SyftError", "SyftNotReady"} THEN FALSE ELSE ClassBool(r.cls)

\* is_err() and is_ok(): SyftError overrides both, SyftNotReady inherits
\* them from it, the other classes have the base class's.
is_err(r) == r.cls \in {"SyftError", "SyftNotReady"}
is_ok(r) == r.cls \notin {"SyftError", "SyftNotReady"}

\* cls(message=...): a message of any of the classes.
ResponseClasses ==
    {"SyftResponseMessage", "SyftError", "SyftSuccess", "SyftNotReady",
     "SyftWarning", "SyftInfo"}
Response(cls, message) ==
    IF cls \in {"SyftError", "SyftNotReady"}
    THEN [cls |-> cls, message |-> message, tb |-> PyNone]
    ELSE [cls |-> cls, message |-> message]

\* An exception: whether it is a SyftException, its type and its text.
Exceptions ==
    [syft : BOOLEAN, type : {"ValueError", "KeyError"},
     text : {"secret a", "secret b"}]

\* traceback.format_exc(): the trace of the exception being handled when
\* the call is made, which names its type and text.
format_exc(handled) == [trace_of |-> handled]

\* A from_exception that puts the exception's text into every message.
from_exception_AlwaysText(cls, context, exc, include_traceback, handled) ==
    [cls |-> cls,
     message |-> [text |-> "Something unexpected happened server side exc",
                  exc |-> exc.text],
     tb |-> IF include_traceback THEN format_exc(handled) ELSE PyNone]

\* SyftError.from_exception(context, exc, include_traceback).  get_message
\* and get_tb are the SyftException's own; handled is the exception in
\* sys.exc_info() during the call.
from_exception(cls, context, exc, include_traceback, handled) ==
    IF exc.syft
    THEN [cls |-> cls,
          message |-> [get_message_of |-> exc, context |-> context],
          tb |-> IF include_traceback
                 THEN [get_tb_of |-> exc, context |-> context]
                 ELSE PyNone]
    ELSE [cls |-> cls,
          message |-> IF include_traceback
                      THEN [text |-> "Something unexpected happened server side exc",
                            exc |-> exc.text]
                      ELSE [text |-> "Something unexpected happened server side type",
                            type |-> exc.type],
          tb |-> IF include_traceback THEN format_exc(handled) ELSE PyNone]

MaxResponses == 2
ResponseInit == responses = <<>>

\* A message is constructed and its three status views are read.
MakeResponse(cls, message) ==
    /\ Len(responses) < MaxResponses
    /\ \E r \in {Response(cls, message)} :
          responses' = Append(responses,
                              [op |-> "make", r |-> r, bool |-> Truthy(r),
                               is_ok |-> is_ok(r), is_err |-> is_err(r)])

\* An exception is turned into an error value.
FromException(cls, context, exc, include_traceback, handled) ==
    /\ Len(responses) < MaxResponses
    /\ \E r \in {from_exception(cls, context, exc, include_traceback, handled)} :
          responses' = Append(responses,
                              [op |-> "from_exception", r |-> r, exc |-> exc,
                               include_traceback |-> include_traceback,
                               bool |-> Truthy(r),
                               is_ok |-> is_ok(r), is_err |-> is_err(r)])

ResponseNext ==
    \/ \E cls \in ResponseClasses, message \in {Text("m1"), Text("m2")} :
          MakeResponse(cls, message) /\ UNCHANGED <<regVars, envVars, callVars, treeVars, rebuildVars, lastCall, libVars, sigVars, assetVars, refVars>>
    \/ \E cls \in {"SyftError", "SyftNotReady"}, exc \in Exceptions, include_traceback \in BOOLEAN, handling \in BOOLEAN :
          FromException(cls, "ctx", exc, include_traceback, IF handling THEN exc ELSE [syft |-> FALSE, type |-> "NoneType", text |-> "None"]) /\ UNCHANGED <<regVars, envVars, callVars, treeVars, rebuildVars, lastCall, libVars, sigVars, assetVars, refVars>>

(***************************************************************************)
(*                 SignedSyftAPICall, SyftAPICall.sign                     *)
(***************************************************************************)
SigningKeys == {"K1", "K2"}
Payloads == {[type |-> "SyftAPIData", data |-> [v |-> "r1"]],
             [type |-> "SyftAPIData", data |-> [v |-> "r2"]],
             [type |-> "SyftAPICall", path |-> "p"]}

\* The codec frames an object between a header and a trailer; a blob that
\* lost its frame does not decode.
Hdr == [b |-> "hdr"]
End == [b |-> "end"]
Junk == [b |-> "junk"]
ByteVals == {Hdr, End, Junk} \cup Payloads
Undecodable == [type |-> "Undecodable"]

_serialize(obj) == <<Hdr, obj, End>>
FrameLen == Len(_serialize(Junk))
_deserialize(blob) ==
    IF Len(blob) = FrameLen /\ blob[1] = Hdr /\ blob[FrameLen] = End
       /\ blob[2] \notin {Hdr, End, Junk}
    THEN blob[2] ELSE Undecodable

\* The credential collaborator (nacl): an unforgeable signature.
verify_key(signing_key) == [verify_key_of |-> signing_key]
VerifyKeys == {verify_key(k) : k \in SigningKeys}
SignBytes(signing_key, message) ==
    [message |-> message,
     signature |-> [by |-> verify_key(signing_key), over |-> message]]
Verifies(vk, message, signature) == signature = [by |-> vk, over |-> message]

\* Mutant: the object's bytes are signed, and then serialized once more.
sign_Reserialized(obj, credentials) ==
    LET signed_message == SignBytes(credentials, _serialize(obj))
    IN [type |-> "SignedSyftAPICall",
        credentials |-> verify_key(credentials),
        serialized_message |-> _serialize(Junk),
        signature |-> signed_message.signature,
        cached_deseralized_message |-> PyNone]

sign(obj, credentials) ==
    LET signed_message == SignBytes(credentials, _serialize(obj))
    IN [type |-> "SignedSyftAPICall",
        credentials |-> verify_key(credentials),
        serialized_message |-> signed_message.message,
        signature |-> signed_message.signature,
        cached_deseralized_message |-> PyNone]

\* Mutant: BadSignatureError is swallowed.
is_valid_Swallow(env) == SyftSuccess(Text("Credentials are valid"))

is_valid(env) ==
    IF Verifies(env.credentials, env.serialized_message, env.signature)
    THEN SyftSuccess(Text("Credentials are valid"))
    ELSE SyftError(Text("BadSignatureError"))

\* The message property: the envelope afterwards, the value, and whether
\* the bytes were decoded by this access.
message(env) ==
    IF env.cached_deseralized_message = PyNone
    THEN LET m == _deserialize(env.serialized_message)
         IN [env |-> IF m = Undecodable THEN env
                     ELSE [env EXCEPT !.cached_deseralized_message = m],
             value |-> m, decoded |-> TRUE]
    ELSE [env |-> env, value |-> env.cached_deseralized_message,
          decoded |-> FALSE]

IsSigned(x) == x.type = "SignedSyftAPICall"

\* .data of the decoded reply; only a SyftAPIData has the field.
DataOf(m) ==
    IF m.type = "SyftAPIData" THEN m.data ELSE [raised |-> "AttributeError"]

\* A debox that decodes the reply whatever the verification said.
debox_DecodeAnyway(signed_result) ==
    IF ~IsSigned(signed_result)
    THEN [result |-> SyftError(Text("The result is not signed")),
          trace |-> <<"isinstance">>, env |-> signed_result]
    ELSE LET m == message(signed_result)
         IN [result |-> IF Truthy(is_valid(signed_result))
                        THEN DataOf(m.value)
                        ELSE SyftError(Text("The result signature is invalid")),
             trace |-> <<"isinstance", "is_valid">>
                       \o (IF m.decoded THEN <<"_deserialize">> ELSE <<>>),
             env |-> m.env]

debox_signed_syftapicall_response(signed_result) ==
    IF ~IsSigned(signed_result)
    THEN [result |-> SyftError(Text("The result is not signed")),
          trace |-> <<"isinstance">>, env |-> signed_result]
    ELSE IF ~Truthy(is_valid(signed_result))
    THEN [result |-> SyftError(Text("The result signature is invalid")),
          trace |-> <<"isinstance", "is_valid">>, env |-> signed_result]
    ELSE LET m == message(signed_result)
         IN [result |-> DataOf(m.value),
             trace |-> <<"isinstance", "is_valid">>
                       \o (IF m.decoded THEN <<"_deserialize">> ELSE <<>>),
             env |-> m.env]

NotChecked == [cls |-> "none"]
NotDeboxed == [trace |-> <<>>]

EnvelopeInit ==
    /\ signed = [type |-> "none"]
    /\ origin = [tamper |-> "none", fresh_ok |-> FALSE]
    /\ validity = NotChecked
    /\ deboxed = NotDeboxed

Sign(obj, key) ==
    /\ signed' = sign(obj, key)
    /\ origin' = [payload |-> obj, key |-> key, tamper |-> "none",
                  fresh_ok |-> FALSE]
    /\ validity' = NotChecked
    /\ deboxed' = NotDeboxed

\* The transport hands over something that is not a signed envelope.
ReceiveUnsigned(obj) ==
    /\ signed' = obj
    /\ origin' = [payload |-> obj, tamper |-> "unsigned", fresh_ok |-> FALSE]
    /\ validity' = NotChecked
    /\ deboxed' = NotDeboxed

FlipByte(i, b) ==
    /\ IsSigned(signed)
    /\ origin.tamper = "none"
    /\ b # signed.serialized_message[i]
    /\ signed' = [signed EXCEPT !.serialized_message[i] = b]
    /\ origin' = [origin EXCEPT !.tamper = "byte"]
    /\ validity' = NotChecked
    /\ deboxed' = NotDeboxed

SubstituteCredentials(vk) ==
    /\ IsSigned(signed)
    /\ origin.tamper = "none"
    /\ vk # signed.credentials
    /\ signed' = [signed EXCEPT !.credentials = vk]
    /\ origin' = [origin EXCEPT !.tamper = "key"]
    /\ validity' = NotChecked
    /\ deboxed' = NotDeboxed

IsValid ==
    /\ IsSigned(signed)
    /\ validity' = is_valid(signed)
    /\ origin' = [origin EXCEPT
                    !.fresh_ok = @ \/ (origin.tamper = "none"
                                       /\ Truthy(is_valid(signed)))]
    /\ UNCHANGED <<signed, deboxed>>

\* envelope.message is read.
ReadMessage ==
    /\ IsSigned(signed)
    /\ signed' = message(signed).env
    /\ UNCHANGED <<origin, validity, deboxed>>

Debox ==
    /\ signed.type # "none"
    /\ LET r == debox_signed_syftapicall_response(signed)
       IN /\ deboxed' = [result |-> r.result, trace |-> r.trace]
          /\ signed' = r.env
    /\ UNCHANGED <<origin, validity>>

EnvNext ==
    \/ \E obj \in Payloads, key \in SigningKeys :
          Sign(obj, key) /\ UNCHANGED <<regVars, callVars, treeVars, laterVars>>
    \/ \E obj \in Payloads : ReceiveUnsigned(obj) /\ UNCHANGED <<regVars, callVars, treeVars, laterVars>>
    \/ \E i \in 1..FrameLen, b \in ByteVals :
          FlipByte(i, b) /\ UNCHANGED <<regVars, callVars, treeVars, laterVars>>
    \/ \E vk \in VerifyKeys : SubstituteCredentials(vk) /\ UNCHANGED <<regVars, callVars, treeVars, laterVars>>
    \/ IsValid /\ UNCHANGED <<regVars, callVars, treeVars, laterVars>>
    \/ Debox /\ UNCHANGED <<regVars, callVars, treeVars, laterVars>>
    \/ ReadMessage /\ UNCHANGED <<regVars, callVars, treeVars, laterVars>>

(***************************************************************************)
(*        Signatures, values and validate_callable_args_and_kwargs         *)
(***************************************************************************)
MaxSupplied == 2

\* Annotations: Parameter.empty, a class, or a typing alias with arguments.
\* A class object is named, and autoreload can leave instances of an
\* earlier load of the same class around (load 0).
Empty == [k |-> "empty"]
Cls(name) == [k |-> "class", name |-> name, load |-> 1]
Stale(name) == [k |-> "class", name |-> name, load |-> 0]
Union(args) == [k |-> "alias", origin |-> "Union", args |-> args]
NoneType == Cls("NoneType")
Optional(t) == Union(<<t, NoneType>>)

Value(t, v) == [type |-> t, val |-> v]
PyInt == Value(Cls("int"), "1")
PyStr == Value(Cls("str"), "a")
PyNoneV == Value(NoneType, "None")
PyFalse == Value(Cls("bool"), "False")
\* An object of a versioned class, in the shape of the node's own protocol.
Dev == Value(Cls("str"), "dev")
Widget == [type |-> Cls("Widget"), val |-> "w", shape |-> Dev]
StaleWidget == Value(Stale("Widget"), "w")
Values == {PyInt, PyStr, PyNoneV, PyFalse, StaleWidget, Widget}

\* bool(value) of the values above.
PyBool(v) == v.val \notin {"None", "False", "0", ""}

Param(name, kind, annotation, has_default) ==
    [name |-> name, kind |-> kind, annotation |-> annotation,
     has_default |-> has_default]
POK == "POSITIONAL_OR_KEYWORD"
VAR_POSITIONAL == "VAR_POSITIONAL"
VAR_KEYWORD == "VAR_KEYWORD"

\* name in signature.parameters
HasParam(sig, name) == \E i \in 1..Len(sig) : sig[i].name = name
ParamOf(sig, name) == sig[CHOOSE i \in 1..Len(sig) : sig[i].name = name]
ParamNames(sig) == [i \in 1..Len(sig) |-> sig[i].name]

\* A dict keeps insertion order: a sequence of entries with distinct keys.
DictHas(d, key) == \E i \in 1..Len(d) : d[i].key = key
DictGet(d, key) == d[CHOOSE i \in 1..Len(d) : d[i].key = key].value
\* A deletion that leaves the key in.
DictDel_Keep(d, key) == d
DictDel(d, key) == SelectSeq(d, LAMBDA e : e.key # key)
DictSet(d, key, value) ==
    IF DictHas(d, key)
    THEN [i \in 1..Len(d) |->
             IF d[i].key = key THEN [key |-> key, value |-> value] ELSE d[i]]
    ELSE Append(d, [key |-> key, value |-> value])
\* An update in which the keys already present keep their values.
RECURSIVE DictUpdate_KeepExisting(_, _)
DictUpdate_KeepExisting(d, other) ==
    IF other = <<>> THEN d
    ELSE DictUpdate_KeepExisting(
            IF DictHas(d, other[1].key) THEN d
            ELSE DictSet(d, other[1].key, other[1].value), Tail(other))

RECURSIVE DictUpdate(_, _)
DictUpdate(d, other) ==
    IF other = <<>> THEN d
    ELSE DictUpdate(DictSet(d, other[1].key, other[1].value), Tail(other))

\* typeguard.check_type: TRUE when it returns, FALSE when it raises.
RECURSIVE check_type(_, _)
check_type(value, t) ==
    CASE t.k = "class" -> value.type = t
      [] t.k = "alias" -> \E i \in 1..Len(t.args) : check_type(value, t.args[i])
      [] OTHER -> TRUE

\* isinstance(t, _GenericAlias) and type(None) in t.__args__
IsOptionalAlias(t) ==
    t.k = "alias" /\ \E i \in 1..Len(t.args) : t.args[i] = NoneType

\* if issubclass(v, EmailStr): v = str
EmailToStr(v) == IF v.name = "EmailStr" THEN Cls("str") ELSE v

\* The keyword branch's loop over the alternatives: any one may match;
\* issubclass raises TypeError on an alternative that is not a class.
RECURSIVE KwAlternativesOk(_, _, _)
KwAlternativesOk(value, alts, i) ==
    IF i > Len(alts) THEN FALSE
    ELSE IF alts[i].k # "class" THEN FALSE
    ELSE IF check_type(value, EmailToStr(alts[i])) THEN TRUE
    ELSE KwAlternativesOk(value, alts, i + 1)

\* The positional branch's loop: check_type on the first alternative is not
\* guarded, so the loop ends there either way.
PosAlternativesOk(value, alts) ==
    /\ alts[1].k = "class"
    /\ check_type(value, EmailToStr(alts[1]))

\* getattr(t, "__name__", str(t)) and type(value).__name__
TypeStr(t) == IF t.k = "class" THEN [name |-> t.name] ELSE [repr |-> t]
TypeName(value) == [name |-> value.type.name]

InvalidParameter(key, sig) ==
    SyftError([text |-> "Invalid parameter: key. Valid Parameters: list",
               key |-> key, valid |-> ParamNames(sig)])
KwTypeError(key, t, value) ==
    SyftError([text |-> "key must be of type expected not actual",
               key |-> key, expected |-> TypeStr(t), actual |-> TypeName(value)])
ArgTypeError(arg, t) ==
    SyftError([text |-> "Arg: arg must be expected not actual",
               arg |-> arg, expected |-> TypeStr(t), actual |-> TypeName(arg)])

Failed(error) == [ok |-> FALSE, error |-> error]

RECURSIVE ValidateKwargs(_, _, _, _)
ValidateKwargs(kwargs, sig, i, acc) ==
    IF i > Len(kwargs) THEN [ok |-> TRUE, kwargs |-> acc]
    ELSE LET key == kwargs[i].key
             value == kwargs[i].value
         IN IF ~HasParam(sig, key) THEN Failed(InvalidParameter(key, sig))
            ELSE LET t == ParamOf(sig, key).annotation
                     raises ==
                        /\ t # Empty
                        /\ IF IsOptionalAlias(t)
                           THEN ~KwAlternativesOk(value, t.args, 1)
                           ELSE ~check_type(value, t)
                 IN IF raises THEN Failed(KwTypeError(key, t, value))
                    ELSE ValidateKwargs(kwargs, sig, i + 1,
                                        DictSet(acc, key, value))

Min(a, b) == IF a < b THEN a ELSE b

RECURSIVE ValidateArgs(_, _, _, _, _, _)
ValidateArgs(args, sig, valid_kwargs, autoreload, i, acc) ==
    IF i > Min(Len(sig), Len(args)) THEN [ok |-> TRUE, args |-> acc]
    ELSE IF DictHas(valid_kwargs, sig[i].name)
    THEN ValidateArgs(args, sig, valid_kwargs, autoreload, i + 1, acc)
    ELSE LET t == sig[i].annotation
             arg == args[i]
             raises ==
                /\ t # Empty
                /\ IF IsOptionalAlias(t)
                   THEN ~PosAlternativesOk(arg, t.args)
                   ELSE ~check_type(arg, t)
             ignored ==
                /\ autoreload
                /\ t.k = "class"
                /\ t.name = arg.type.name
         IN IF raises /\ ~ignored THEN Failed(ArgTypeError(arg, t))
            ELSE ValidateArgs(args, sig, valid_kwargs, autoreload, i + 1,
                              Append(acc, arg))

validate_callable_args_and_kwargs(args, kwargs, sig, autoreload) ==
    LET kw == IF HasParam(sig, "kwargs") THEN [ok |-> TRUE, kwargs |-> kwargs]
              ELSE ValidateKwargs(kwargs, sig, 1, <<>>)
    IN IF ~kw.ok THEN kw
       ELSE LET pos == IF HasParam(sig, "args") THEN [ok |-> TRUE, args |-> args]
                       ELSE ValidateArgs(args, sig, kw.kwargs, autoreload, 1, <<>>)
            IN IF ~pos.ok THEN pos
               ELSE [ok |-> TRUE, args |-> pos.args, kwargs |-> kw.kwargs]

(***************************************************************************)
(*                 RemoteFunction.__call__ and SyftAPI.make_call           *)
(***************************************************************************)
Raised(exc) == [raised |-> exc]

Ok(value) == [okerr |-> "Ok", value |-> value]
Err(value) == [okerr |-> "Err", value |-> value]
IsOkErr(x) == "okerr" \in DOMAIN x

\* protocol.data_protocol.migrate_args_and_kwargs: a value of a versioned
\* type is carried to the shape of the target protocol, anything else
\* passes through.
Latest == "latest"
MigrateValue(v, protocol) ==
    IF "shape" \in DOMAIN v THEN [v EXCEPT !.shape = protocol] ELSE v
migrate_args_and_kwargs(args, kwargs, protocol) ==
    [args |-> [i \in 1..Len(args) |-> MigrateValue(args[i], protocol)],
     kwargs |-> [i \in 1..Len(kwargs) |->
                   [key |-> kwargs[i].key,
                    value |-> MigrateValue(kwargs[i].value, protocol)]]]

ServerKey == "K2"
ClientKey == "K1"
\* A key that is neither the node's nor the client's.
OtherKey == "K3"
ReplyData == {[v |-> "r1"], Ok([v |-> "r1"]), Err([v |-> "e1"])}
Replies == {[how |-> "signed", data |-> d] : d \in ReplyData}
           \cup {[how |-> "unsigned", data |-> [v |-> "r1"]],
                 [how |-> "badsig", data |-> [v |-> "r1"]]}
DefaultReply == [how |-> "signed", data |-> [v |-> "r1"]]

\* connection.make_call(signed_call): what comes back from the node.
ServerReply(reply) ==
    LET payload == [type |-> "SyftAPIData", data |-> reply.data]
        good == sign(payload, ServerKey)
    IN CASE reply.how = "signed" -> good
         [] reply.how = "unsigned" -> payload
         [] reply.how = "otherkey" -> sign(payload, OtherKey)
         [] reply.how = "badsig" ->
              [good EXCEPT !.serialized_message = _serialize(Junk)]

TheSession ==
    [node_uid |-> "n1", signing_key |-> ClientKey, connection |-> "conn",
     refresh_api_callback |-> None]

\* A Request, by the classes of its changes.
Request(changes) == [type |-> "Request", changes |-> changes]
IsRequest(x) == "changes" \in DOMAIN x

\* SyftAPI.update_api: the steps it adds to the call, a refresh or nothing.
update_api(session, api_call_result) ==
    IF /\ IsRequest(api_call_result)
       /\ \E i \in 1..Len(api_call_result.changes) :
             api_call_result.changes[i] = "UserCodeStatusChange"
       /\ session.refresh_api_callback # None
    THEN <<"refresh">>
    ELSE <<>>

\* The end of make_call: an Ok is unwrapped and passed to update_api, an
\* Err is unwrapped, anything else is returned as it is.
Unwrap(session, result) ==
    IF IsOkErr(result)
    THEN [result |-> result.value,
          trace |-> IF result.okerr = "Ok"
                    THEN update_api(session, result.value) ELSE <<>>]
    ELSE [result |-> result, trace |-> <<>>]

make_call(session, api_call, reply) ==
    IF session.signing_key = None
    THEN [result |-> Raised("AttributeError"), trace |-> <<>>, sent |-> <<>>]
    ELSE LET signed_call == sign(api_call, session.signing_key)
         IN IF session.connection = None
            THEN [result |-> SyftError(Text("API connection is None")),
                  trace |-> <<"sign">>, sent |-> <<>>]
            ELSE LET d == debox_signed_syftapicall_response(ServerReply(reply))
                     u == Unwrap(session, d.result)
                 IN [result |-> u.result,
                     trace |-> <<"sign", "send">> \o d.trace \o u.trace,
                     sent |-> <<signed_call>>]

SyftAPICall(node_uid, path, args, kwargs, blocking) ==
    [type |-> "SyftAPICall", node_uid |-> node_uid, path |-> path,
     args |-> args, kwargs |-> kwargs, blocking |-> blocking]

\* prepare_args_and_kwargs: validate, then migrate to the stub's protocol.
prepare_args_and_kwargs(st, args, kwargs, autoreload) ==
    LET res == validate_callable_args_and_kwargs(args, kwargs, st.signature,
                                                 autoreload)
    IN IF ~res.ok THEN res
       ELSE LET m == migrate_args_and_kwargs(res.args, res.kwargs,
                                             st.communication_protocol)
            IN [ok |-> TRUE, args |-> m.args, kwargs |-> m.kwargs]

\* RemoteFunction.__call__.  inp: what the surroundings answer during the
\* call (autoreload_enabled(), warning.show(), the node's reply).
\* A warning that never stops a call.
Allowed_Always(st, inp) == TRUE

\* allowed = self.warning.show() if self.warning else True; show() presents
\* the warning and returns the caller's answer.
Allowed(st, inp) == IF st.warning # None THEN inp.accept ELSE TRUE

RemoteFunction_call(st, args, kwargs, inp) ==
    IF HasParam(st.signature, "blocking")
    THEN [result |-> Raised("Exception"), trace |-> <<>>, sent |-> <<>>,
          pre_kwargs |-> st.pre_kwargs]
    ELSE
    LET blocking == IF DictHas(kwargs, "blocking")
                    THEN PyBool(DictGet(kwargs, "blocking")) ELSE TRUE
        kw == DictDel(kwargs, "blocking")
        res == prepare_args_and_kwargs(st, args, kw, inp.autoreload)
    IN IF ~res.ok
       THEN [result |-> res.error, trace |-> <<"validate">>, sent |-> <<>>,
             pre_kwargs |-> st.pre_kwargs]
       ELSE
       LET merged == IF st.pre_kwargs # <<>>
                     THEN DictUpdate(res.kwargs, st.pre_kwargs)
                     ELSE res.kwargs
           valid_kwargs == DictSet(merged, "communication_protocol",
                                   st.communication_protocol)
           api_call == SyftAPICall(st.node_uid, st.path, res.args,
                                   valid_kwargs, blocking)
           allowed == Allowed(st, inp)
           shown == IF st.warning # None THEN <<"warning">> ELSE <<>>
       IN IF ~allowed
          THEN [result |-> PyNone,
                trace |-> <<"validate", "migrate">> \o shown, sent |-> <<>>,
                pre_kwargs |-> st.pre_kwargs]
          ELSE LET mc == make_call(st.session, api_call, inp.reply)
               IN [result |-> MigrateValue(mc.result, Latest),
                   trace |-> <<"validate", "migrate">> \o shown \o mc.trace
                             \o <<"migrate_back">>,
                   sent |-> mc.sent,
                   pre_kwargs |-> st.pre_kwargs]

\* convert_to_pointers(api, node_uid, args, kwargs): a list and a dict of
\* pointers to the values.
Pointer(v) == [syft_lineage_id |-> [id_of |-> v]]
convert_to_pointers(args, kwargs) ==
    [args |-> [i \in 1..Len(args) |-> Pointer(args[i])],
     kwargs |-> [i \in 1..Len(kwargs) |->
                   [key |-> kwargs[i].key, value |-> Pointer(kwargs[i].value)]]]

\* module_path.rsplit(".", 1), module_path a sequence of names and dots.
rsplit(module_path) ==
    IF Len(module_path) >= 3 /\ module_path[Len(module_path) - 1] = "."
    THEN <<SubSeq(module_path, 1, Len(module_path) - 2),
           <<module_path[Len(module_path)]>>>>
    ELSE <<module_path>>

Action(path, op, args, kwargs) ==
    [type |-> "Action", path |-> path, op |-> op, remote_self |-> PyNone,
     args |-> args, kwargs |-> kwargs, action_type |-> "FUNCTION"]

\* The end of wrapper: the action is added to the trace buffer, then the
\* call is built and made.  tr is TraceResult.
TraceAndCall(fn, session, wrapper_node_uid, action, blocking, inp, tr) ==
    LET api_call == SyftAPICall(wrapper_node_uid, fn.path, <<action>>, <<>>,
                                blocking)
        mc == make_call(session, api_call, inp.reply)
    IN [result |-> mc.result,
        trace |-> <<"validate", "convert", "trace">> \o mc.trace,
        sent |-> mc.sent,
        TraceResult |-> [tr EXCEPT !.result = Append(@, action)]]

\* The closure generate_remote_lib_function returns, called.
wrapper(fn, args, kwargs, inp, tr) ==
    LET session == IF tr._client # PyNone THEN tr._client.api ELSE fn.session
        wrapper_node_uid == IF tr._client # PyNone THEN tr._client.api.node_uid
                            ELSE fn.node_uid
        blocking == IF DictHas(kwargs, "blocking")
                    THEN PyBool(DictGet(kwargs, "blocking")) ELSE TRUE
        kw == DictDel(kwargs, "blocking")
        res == validate_callable_args_and_kwargs(args, kw, fn.signature,
                                                 inp.autoreload)
    IN IF ~res.ok
       THEN [result |-> res.error, trace |-> <<"validate">>, sent |-> <<>>,
             TraceResult |-> tr]
       ELSE
       LET merged == IF fn.pre_kwargs # <<>>
                     THEN DictUpdate(res.kwargs, fn.pre_kwargs)
                     ELSE res.kwargs
           p == convert_to_pointers(res.args, merged)
           parts == rsplit(fn.module_path)
       IN IF Len(parts) # 2
          \* module, op = ...: one value to unpack
          THEN [result |-> Raised("ValueError"),
                trace |-> <<"validate", "convert">>, sent |-> <<>>,
                TraceResult |-> tr]
          ELSE IF p.kwargs # <<>>
          \* for k, v in action_kwargs: the dict yields its keys, and a key
          \* of one or of three characters does not unpack into k, v
          THEN [result |-> Raised("ValueError"),
                trace |-> <<"validate", "convert">>, sent |-> <<>>,
                TraceResult |-> tr]
          ELSE TraceAndCall(fn, session, wrapper_node_uid,
                            Action(parts[1], parts[2],
                                   [i \in 1..Len(p.args) |->
                                       p.args[i].syft_lineage_id],
                                   <<>>),
                            blocking, inp, tr)

\* The stubs the calls are made on: the signature and the arguments bound
\* at catalog-build time (pre_kwargs <<>> for None), the usage warning.
Protocol2 == Value(Cls("int"), "2")
Stub(signature, pre_kwargs, warning) ==
    [signature |-> signature, path |-> "svc.op", pre_kwargs |-> pre_kwargs,
     warning |-> warning, communication_protocol |-> Protocol2,
     node_uid |-> TheSession.node_uid, session |-> TheSession]

Uid1 == Value(Cls("UID"), "u1")
Stubs ==
    { \* f(x: int)
      Stub(<<Param("x", POK, Cls("int"), FALSE)>>, <<>>, None),
      \* f(x: int, y: str = ...), with a usage warning
      Stub(<<Param("x", POK, Cls("int"), FALSE),
             Param("y", POK, Cls("str"), TRUE)>>, <<>>, "warning"),
      \* f(x: Optional[int], y), a user-code endpoint with its uid bound
      Stub(<<Param("x", POK, Optional(Cls("int")), FALSE),
             Param("y", POK, Empty, FALSE)>>,
           <<[key |-> "uid", value |-> Uid1]>>, None),
      \* f(x: int, **kwargs), a user-code endpoint with its uid bound
      Stub(<<Param("x", POK, Cls("int"), FALSE),
             Param("kwargs", VAR_KEYWORD, Empty, FALSE)>>,
           <<[key |-> "uid", value |-> Uid1]>>, None),
      \* f(x: int, kwargs: str): an ordinary parameter that is named kwargs
      Stub(<<Param("x", POK, Cls("int"), FALSE),
             Param("kwargs", POK, Cls("str"), TRUE)>>, <<>>, None),
      \* f(x: int, **kwargs)
      Stub(<<Param("x", POK, Cls("int"), FALSE),
             Param("kwargs", VAR_KEYWORD, Empty, FALSE)>>, <<>>, None),
      \* f(x: int, **extra)
      Stub(<<Param("x", POK, Cls("int"), FALSE),
             Param("extra", VAR_KEYWORD, Empty, FALSE)>>, <<>>, None),
      \* f(*args, y: int = ...)
      Stub(<<Param("args", VAR_POSITIONAL, Empty, FALSE),
             Param("y", "KEYWORD_ONLY", Cls("int"), TRUE)>>, <<>>, None),
      \* f(x: Widget, y: Union[int, str] = ...)
      Stub(<<Param("x", POK, Cls("Widget"), FALSE),
             Param("y", POK, Union(<<Cls("int"), Cls("str")>>), TRUE)>>,
           <<>>, None) }

KwNames == {"x", "y", "uid", "blocking"}

RECURSIVE SeqsOfLen(_, _)
SeqsOfLen(S, n) ==
    IF n = 0 THEN {<<>>}
    ELSE {Append(q, x) : q \in SeqsOfLen(S, n - 1), x \in S}
SeqsUpTo(S, n) == UNION {SeqsOfLen(S, k) : k \in 0..n}

Entries == {[key |-> k, value |-> v] : k \in KwNames, v \in Values}
Dicts(n) ==
    {d \in SeqsUpTo(Entries, n) :
        \A i, j \in 1..Len(d) : i # j => d[i].key # d[j].key}

NoStub == [path |-> "none"]
NotCalled == [trace |-> <<>>]

CallInit ==
    /\ stub = NoStub
    /\ called = NotCalled
    /\ callOut = NotCalled
    /\ wire = <<>>

\* A stub of the proxy tree is picked for the call.
PickStub(st) ==
    /\ stub = NoStub
    /\ stub' = st
    /\ UNCHANGED <<called, callOut, wire>>

Invoke(args, kwargs, inp) ==
    /\ stub # NoStub
    /\ callOut = NotCalled
    /\ Len(args) + Len(kwargs) <= MaxSupplied
    /\ \E r \in {RemoteFunction_call(stub, args, kwargs, inp)} :
          /\ "send" \notin Range(r.trace) => inp.reply = DefaultReply
          /\ "warning" \notin Range(r.trace) => inp.accept
          /\ called' = [args |-> args, kwargs |-> kwargs, inp |-> inp,
                        pre_kwargs |-> stub.pre_kwargs]
          /\ callOut' = [result |-> r.result, trace |-> r.trace]
          /\ wire' = wire \o r.sent
          /\ stub' = [stub EXCEPT !.pre_kwargs = r.pre_kwargs]

Inputs ==
    [autoreload : BOOLEAN, accept : BOOLEAN, reply : Replies]

Supplied ==
    {ak \in SeqsUpTo(Values, MaxSupplied) \X Dicts(MaxSupplied) :
        Len(ak[1]) + Len(ak[2]) <= MaxSupplied}

CallNext ==
    \/ \E st \in Stubs : PickStub(st) /\ UNCHANGED <<regVars, envVars, treeVars, laterVars>>
    \/ /\ callOut = NotCalled
       /\ \E ak \in Supplied, inp \in Inputs :
             Invoke(ak[1], ak[2], inp) /\ UNCHANGED <<regVars, envVars, treeVars, laterVars>>

(***************************************************************************)
(*                       Calls on library-routed stubs                     *)
(***************************************************************************)
\* The library stubs, as generate_endpoints makes them (pre_kwargs None).
LibStub(signature, module_path) ==
    [signature |-> signature, path |-> "action.execute",
     module_path |-> module_path, pre_kwargs |-> <<>>,
     communication_protocol |-> Protocol2,
     node_uid |-> TheSession.node_uid, session |-> TheSession]
LibStubs ==
    { \* numpy.sum(x: int)
      LibStub(<<Param("x", POK, Cls("int"), FALSE)>>, <<"numpy", ".", "sum">>),
      \* numpy.linalg.norm(x: int, y: str = ...)
      LibStub(<<Param("x", POK, Cls("int"), FALSE),
                Param("y", POK, Cls("str"), TRUE)>>,
              <<"numpy", ".", "linalg", ".", "norm">>),
      \* numpy.array(x: int, **kwargs)
      LibStub(<<Param("x", POK, Cls("int"), FALSE),
                Param("kwargs", VAR_KEYWORD, Empty, FALSE)>>,
              <<"numpy", ".", "array">>) }

\* The client a trace runs on.
TraceClient ==
    [api |-> [node_uid |-> "n2", signing_key |-> ClientKey,
              connection |-> "conn2", refresh_api_callback |-> None]]

NoLibCall == [done |-> FALSE]

LibInit ==
    /\ TraceResult = [_client |-> PyNone, result |-> <<>>]
    /\ libCall = NoLibCall

\* A trace is started on a client.
StartTrace(client) ==
    /\ TraceResult._client = PyNone
    /\ ~libCall.done
    /\ TraceResult' = [TraceResult EXCEPT !._client = client]
    /\ UNCHANGED libCall

\* A library stub is called.
LibInvoke(fn, args, kwargs, inp) ==
    /\ ~libCall.done
    /\ \E r \in {wrapper(fn, args, kwargs, inp, TraceResult)} :
          /\ "send" \notin Range(r.trace) => inp.reply = DefaultReply
          /\ libCall' = [done |-> TRUE, fn |-> fn, args |-> args,
                         kwargs |-> kwargs, inp |-> inp, result |-> r.result,
                         trace |-> r.trace, sent |-> r.sent]
          /\ TraceResult' = r.TraceResult

LibNext ==
    \/ StartTrace(TraceClient) /\ UNCHANGED <<regVars, envVars, callVars, treeVars, rebuildVars, lastCall, sigVars, tailVars>>
    \/ /\ ~libCall.done
       /\ \E fn \in LibStubs, ak \in Supplied, inp \in {i \in Inputs : i.accept} :
             LibInvoke(fn, ak[1], ak[2], inp) /\ UNCHANGED <<regVars, envVars, callVars, treeVars, rebuildVars, lastCall, sigVars, tailVars>>

(***************************************************************************)
(*                  The proxy tree: APIModule and _add_route               *)
(***************************************************************************)
MaxEndpoints == 2
MaxBuilds == 2

\* A str is the sequence of its pieces: names, and the separator ".".
\* An attribute name is a str too.
Dot == "."
Name(n) == <<n>>
EmptyStr == <<>>

\* str.split(sep)
RECURSIVE split(_, _)
split(s, sep) ==
    IF \A i \in 1..Len(s) : s[i] # sep THEN <<s>>
    ELSE LET i == CHOOSE k \in 1..Len(s) :
                      s[k] = sep /\ \A j \in 1..(k - 1) : s[j] # sep
         IN <<SubSeq(s, 1, i - 1)>> \o split(SubSeq(s, i + 1, Len(s)), sep)

\* Values an attribute can hold: a str, a list, or a reference to an object
\* of the heap (an APIModule, a RemoteFunction, a wrapper function).
StrV(s) == [str |-> s]
ListV(l) == [list |-> l]
Ref(n) == [ref |-> n]
IsRef(v) == "ref" \in DOMAIN v

\* APIModule.__init__: the instance dict, in assignment order.
APIModule(path) ==
    [cls |-> "APIModule",
     dict |-> <<[key |-> Name("_modules"), value |-> ListV(<<>>)],
                [key |-> Name("path"), value |-> StrV(path)]>>]

\* What the class APIModule itself defines.
APIModuleClassAttrs ==
    {Name("_add_submodule"), Name("__getitem__"), Name("_repr_html_")}
\* The fields of a RemoteFunction.
RemoteFunctionFields ==
    {Name("node_uid"), Name("signature"), Name("path"), Name("make_call"),
     Name("pre_kwargs"), Name("communication_protocol"), Name("warning")}
IsRemoteFunction(o) == o.cls \in {"RemoteFunction", "RemoteUserCodeFunction"}

\* hasattr(v, name), v a value and h the heap.
hasattr(h, v, name) ==
    IF ~IsRef(v) THEN FALSE
    ELSE LET o == h[v.ref]
         IN CASE o.cls = "APIModule" ->
                   DictHas(o.dict, name) \/ name \in APIModuleClassAttrs
              [] IsRemoteFunction(o) -> name \in RemoteFunctionFields
              [] OTHER -> FALSE

\* getattr(v, name) where hasattr(v, name) holds.
getattr(h, v, name) ==
    LET o == h[v.ref]
    IN CASE o.cls = "APIModule" /\ DictHas(o.dict, name) -> DictGet(o.dict, name)
         [] IsRemoteFunction(o) /\ name = Name("path") -> StrV(o.path)
         [] OTHER -> [attr |-> name, of |-> v]

\* APIModule.__getattribute__: what object.__getattribute__ finds, and
\* SyftAttributeError where that raises AttributeError.
__getattribute__(h, v, name) ==
    IF hasattr(h, v, name)
    THEN [raised |-> None, value |-> getattr(h, v, name)]
    ELSE [raised |-> "SyftAttributeError", value |-> PyNone]

\* The names in the list _modules of a namespace node: its children.
Children(h, v) ==
    LET m == DictGet(h[v.ref].dict, Name("_modules"))
    IN IF "list" \in DOMAIN m THEN {m.list[i] : i \in 1..Len(m.list)} ELSE {}

\* Whether v._add_submodule is the method of APIModule.
HasAddSubmodule(h, v) ==
    /\ IsRef(v)
    /\ h[v.ref].cls = "APIModule"
    /\ ~DictHas(h[v.ref].dict, Name("_add_submodule"))

\* str(v) inside an f-string.
Format(v) == IF "str" \in DOMAIN v THEN v.str ELSE <<"<object>">>

\* self._modules.append(attr_name), d1 being the instance dict after the
\* setattr.
AppendModule(h, self, attr_name, d1) ==
    IF "list" \in DOMAIN DictGet(d1, Name("_modules"))
    THEN [heap |-> [h EXCEPT ![self.ref].dict =
                      DictSet(d1, Name("_modules"),
                              ListV(Append(DictGet(d1, Name("_modules")).list,
                                           attr_name)))],
          raised |-> None]
    ELSE [heap |-> [h EXCEPT ![self.ref].dict = d1],
          raised |-> "AttributeError"]

\* APIModule._add_submodule: setattr, then append to self._modules (read
\* after the setattr).
_add_submodule(h, self, attr_name, module_or_func) ==
    AppendModule(h, self, attr_name,
                 DictSet(h[self.ref].dict, attr_name, module_or_func))

\* submodule_path = f"{_self.path}.{module}"
\* _self._add_submodule(module, APIModule(path=submodule_path))
NewSubmodule(h, _self, module) ==
    _add_submodule(
        Append(h, APIModule(Format(getattr(h, _self, Name("path")))
                                \o <<Dot>> \o module)),
        _self, module, Ref(Len(h) + 1))

\* The while loop of _add_route: walk down from _self, creating the
\* namespaces that are missing.
RECURSIVE Descend(_, _, _)
RECURSIVE DescendInto(_, _, _)
Descend(h, _self, _modules) ==
    IF _modules = <<>> THEN [heap |-> h, self |-> _self, raised |-> None]
    ELSE IF hasattr(h, _self, Head(_modules))
    THEN Descend(h, getattr(h, _self, Head(_modules)), Tail(_modules))
    ELSE IF ~hasattr(h, _self, Name("path")) \/ ~HasAddSubmodule(h, _self)
    THEN [heap |-> h, self |-> _self, raised |-> "AttributeError"]
    ELSE DescendInto(NewSubmodule(h, _self, Head(_modules)), _self, _modules)

\* _self = getattr(_self, module), r being what _add_submodule did.
DescendInto(r, _self, _modules) ==
    IF r.raised # None
    THEN [heap |-> r.heap, self |-> _self, raised |-> r.raised]
    ELSE Descend(r.heap, getattr(r.heap, _self, Head(_modules)),
                 Tail(_modules))

\* endpoint.module_path.split(".")[:-1] + [endpoint.name]
RouteModules(endpoint) ==
    SubSeq(split(endpoint.module_path, Dot), 1,
           Len(split(endpoint.module_path, Dot)) - 1) \o <<endpoint.name>>

\* _self._add_submodule(_last_module, endpoint_method), d being where the
\* loop ended.
AddLeaf(d, _last_module, endpoint_method) ==
    IF d.raised # None THEN [heap |-> d.heap, raised |-> d.raised]
    ELSE IF ~HasAddSubmodule(d.heap, d.self)
    THEN [heap |-> d.heap, raised |-> "AttributeError"]
    ELSE _add_submodule(d.heap, d.self, _last_module, endpoint_method)

\* SyftAPI._add_route
_add_route(h, api_module, endpoint, endpoint_method) ==
    AddLeaf(Descend(h, api_module,
                    SubSeq(RouteModules(endpoint), 1,
                           Len(RouteModules(endpoint)) - 1)),
            RouteModules(endpoint)[Len(RouteModules(endpoint))],
            endpoint_method)

(***************************************************************************)
(*           Endpoint descriptors, stubs and generate_endpoints            *)
(***************************************************************************)
\* A class of versioned objects: __canonical_name__ and __version__.
Versioned(name, version) ==
    [k |-> "class", name |-> name, load |-> 1, version |-> version]

APIEndpoint(service_path, module_path, name, doc_string, signature, has_self, pre_kwargs, warning) ==
    [cls |-> "APIEndpoint", service_path |-> service_path,
     module_path |-> module_path, name |-> name, doc_string |-> doc_string,
     signature |-> signature, has_self |-> has_self,
     pre_kwargs |-> pre_kwargs, warning |-> warning]

LibEndpoint(service_path, module_path, name, doc_string, signature, has_self, pre_kwargs) ==
    [cls |-> "LibEndpoint", service_path |-> service_path,
     module_path |-> module_path, name |-> name, doc_string |-> doc_string,
     signature |-> signature, has_self |-> has_self,
     pre_kwargs |-> pre_kwargs]

\* serde.signature.signature_remove_self / signature_remove_context: the
\* signature without its parameter of that name.
signature_remove_self(signature) ==
    SelectSeq(signature, LAMBDA p : p.name # "self")
signature_remove_context(signature) ==
    SelectSeq(signature, LAMBDA p : p.name # "context")

CodeCall == <<"code", Dot, "call">>

\* A mapping argument that may be None.
DictV(d) == [dict |-> d]

generate_remote_function(api, node_uid, signature, path, pre_kwargs, communication_protocol, warning) ==
    IF HasParam(signature, "blocking")
    THEN [raised |-> "Exception"]
    ELSE IF /\ path = CodeCall
            /\ pre_kwargs # PyNone
            /\ DictHas(pre_kwargs.dict, "uid")
    THEN [raised |-> None,
          fn |-> [cls |-> "RemoteUserCodeFunction", api |-> "self",
                  node_uid |-> node_uid, signature |-> signature,
                  path |-> path, pre_kwargs |-> pre_kwargs,
                  communication_protocol |-> communication_protocol,
                  warning |-> warning,
                  user_code_id |-> DictGet(pre_kwargs.dict, "uid")]]
    ELSE [raised |-> None,
          fn |-> [cls |-> "RemoteFunction",
                  node_uid |-> node_uid, signature |-> signature,
                  path |-> path, pre_kwargs |-> pre_kwargs,
                  communication_protocol |-> communication_protocol,
                  warning |-> warning]]

\* The closure that generate_remote_lib_function returns.
generate_remote_lib_function(api, node_uid, signature, path, module_path, communication_protocol, pre_kwargs) ==
    IF HasParam(signature, "blocking")
    THEN [raised |-> "Exception"]
    ELSE [raised |-> None,
          fn |-> [cls |-> "function", name |-> "wrapper",
                  node_uid |-> node_uid, signature |-> signature,
                  path |-> path, module_path |-> module_path,
                  pre_kwargs |-> pre_kwargs,
                  communication_protocol |-> communication_protocol]]

\* The signature a stub is generated with.
StubSignature(v) ==
    signature_remove_context(
        IF ~v.has_self THEN signature_remove_self(v.signature)
        ELSE v.signature)

\* The stub, or the exception, for endpoint v.
GenerateFor(self, v, communication_protocol) ==
    IF v.cls = "APIEndpoint"
    THEN generate_remote_function(
             self, self.node_uid, StubSignature(v), v.service_path,
             v.pre_kwargs, communication_protocol, v.warning)
    ELSE generate_remote_lib_function(
             self, self.node_uid, StubSignature(v), v.service_path,
             v.module_path, communication_protocol, v.pre_kwargs)

\* endpoint_function.__doc__ = v.doc_string
WithDoc(fn, doc_string) == [doc |-> doc_string] @@ fn

\* The loop of build_endpoint_tree over endpoints.items(), from entry i on:
\* generate the stub (g), route it (r), go on.
RECURSIVE BuildLoop(_, _, _, _, _, _)
RECURSIVE RouteStub(_, _, _, _, _, _, _)
RECURSIVE NextEndpoint(_, _, _, _, _, _)
BuildLoop(h, self, api_module, endpoints, communication_protocol, i) ==
    IF i > Len(endpoints) THEN [heap |-> h, raised |-> None]
    ELSE RouteStub(h, self, api_module, endpoints, communication_protocol, i,
                   GenerateFor(self, endpoints[i].value,
                               communication_protocol))

RouteStub(h, self, api_module, endpoints, communication_protocol, i, g) ==
    IF g.raised # None THEN [heap |-> h, raised |-> g.raised]
    ELSE NextEndpoint(
             _add_route(Append(h, WithDoc(g.fn, endpoints[i].value.doc_string)),
                        api_module, endpoints[i].value, Ref(Len(h) + 1)),
             self, api_module, endpoints, communication_protocol, i)

NextEndpoint(r, self, api_module, endpoints, communication_protocol, i) ==
    IF r.raised # None THEN r
    ELSE BuildLoop(r.heap, self, api_module, endpoints,
                   communication_protocol, i + 1)

\* What build_endpoint_tree returns, or raises.
Built(r, api_module) ==
    [heap |-> r.heap, raised |-> r.raised, api_module |-> api_module]

\* A build that adds the routes to the service tree the session has, when
\* it has one.
build_endpoint_tree_OntoOld(h, self, endpoints, communication_protocol) ==
    IF self.api_module = PyNone
    THEN Built(BuildLoop(Append(h, APIModule(EmptyStr)), self, Ref(Len(h) + 1),
                         endpoints, communication_protocol, 1),
               Ref(Len(h) + 1))
    ELSE Built(BuildLoop(h, self, self.api_module, endpoints,
                         communication_protocol, 1),
               self.api_module)

\* build_endpoint_tree: a new root, then one route per endpoint.
build_endpoint_tree(h, self, endpoints, communication_protocol) ==
    Built(BuildLoop(Append(h, APIModule(EmptyStr)), self, Ref(Len(h) + 1),
                    endpoints, communication_protocol, 1),
          Ref(Len(h) + 1))

\* self.api_module = build_endpoint_tree(self.endpoints, ...)
SetApiModule(s, self) ==
    IF s.raised # None
    THEN [heap |-> s.heap, api |-> self, raised |-> s.raised]
    ELSE [heap |-> s.heap, api |-> [self EXCEPT !.api_module = s.api_module],
          raised |-> None]

\* self.libs = build_endpoint_tree(self.lib_endpoints, ...), then the
\* service tree.
SetLibs(l, self) ==
    IF l.raised # None
    THEN [heap |-> l.heap, api |-> self, raised |-> l.raised]
    ELSE SetApiModule(
             build_endpoint_tree(l.heap, [self EXCEPT !.libs = l.api_module],
                                 self.endpoints, self.communication_protocol),
             [self EXCEPT !.libs = l.api_module])

\* SyftAPI.generate_endpoints
generate_endpoints(h, self) ==
    SetLibs(IF self.lib_endpoints # PyNone
            THEN build_endpoint_tree(h, self, self.lib_endpoints.dict,
                                     self.communication_protocol)
            ELSE [heap |-> h, raised |-> None, api_module |-> self.libs],
            self)

\* Nothing to generate: the tree is there.
Cached(h, self) == [heap |-> h, api |-> self, raised |-> None]

\* The properties SyftAPI.services and SyftAPI.lib; an operation returns
\* the heap and the session after it, what it raised, and its value.
Returns(g, value) ==
    [heap |-> g.heap, api |-> g.api, raised |-> g.raised, value |-> value]
ServicesOf(g) == Returns(g, g.api.api_module)
LibOf(g) == Returns(g, g.api.libs)
services(h, self) ==
    ServicesOf(IF self.api_module = PyNone THEN generate_endpoints(h, self)
               ELSE Cached(h, self))
lib(h, self) ==
    LibOf(IF self.libs = PyNone THEN generate_endpoints(h, self)
          ELSE Cached(h, self))

(***************************************************************************)
(*                  SyftAPI.for_user and downgrade_signature               *)
(***************************************************************************)
Protocol1 == Value(Cls("int"), "1")
Protocols == {Protocol1, Protocol2, Dev}

\* int(protocol) for the protocols above; int("dev") raises ValueError.
IntOf(p) == CASE p.val = "1" -> 1 [] p.val = "2" -> 2 [] OTHER -> 0

\* data_protocol.get_object_versions(protocol): for each canonical name the
\* versions of the object known to that protocol.
get_object_versions(protocol) ==
    <<[key |-> "Widget",
       value |-> IF protocol = Protocol1 THEN <<1>> ELSE <<1, 2>>]>>

\* max of a non-empty list
MaxOf(l) == CHOOSE m \in Range(l) : \A x \in Range(l) : x <= m

\* Besides the typing aliases (Optional[X], List[X], Callable[[X], Y]),
\* which have copy_with, an annotation can be a builtin generic (list[X]),
\* which has an origin that can be subscripted, or a union written X | Y,
\* whose origin types.UnionType cannot.  The parameter list of a Callable
\* is a plain list among its arguments.
Alias(name, args) == [k |-> "alias", origin |-> name, args |-> args]
Generic(name, args) == [k |-> "generic", origin |-> name, args |-> args]
UnionType(args) == [k |-> "uniontype", origin |-> "UnionType", args |-> args]
ParamList(items) == [k |-> "paramlist", items |-> items]

\* typing.get_args(annotation)
get_args(annotation) ==
    IF annotation.k \in {"alias", "generic", "uniontype"}
    THEN annotation.args ELSE <<>>

\* The exception that ends the migration of an annotation.
AnnotationRaised == [k |-> "raised", exc |-> "TypeError"]

\* The wrapper rebuilt around the migrated arguments: copy_with, or
\* origin[...], which raises TypeError for types.UnionType.  (The third
\* branch of the code needs arguments without an origin, which none of
\* these annotations has.)
Rewrap(annotation, migrated_annotations) ==
    IF \E i \in 1..Len(migrated_annotations) :
          migrated_annotations[i] = AnnotationRaised
    THEN AnnotationRaised
    ELSE IF annotation.k = "alias"
    THEN [annotation EXCEPT !.args = migrated_annotations]
    ELSE IF annotation.k = "generic"
    THEN [annotation EXCEPT !.args = migrated_annotations]
    ELSE AnnotationRaised

RECURSIVE unwrap_and_migrate_annotation(_, _)
unwrap_and_migrate_annotation(annotation, object_versions) ==
    IF Len(get_args(annotation)) = 0
    THEN IF /\ annotation.k = "class"
            /\ "version" \in DOMAIN annotation
            /\ DictHas(object_versions, annotation.name)
         THEN Versioned(annotation.name,
                        MaxOf(DictGet(object_versions, annotation.name)))
         ELSE annotation
    ELSE Rewrap(annotation,
                [i \in 1..Len(annotation.args) |->
                    unwrap_and_migrate_annotation(annotation.args[i],
                                                  object_versions)])

downgrade_signature(signature, object_versions) ==
    [i \in 1..Len(signature) |->
        Param(signature[i].name, signature[i].kind,
              unwrap_and_migrate_annotation(signature[i].annotation,
                                            object_versions),
              signature[i].has_default)]

\* Signature(parameters=..., return_annotation=...) at the end of
\* downgrade_signature, or the exception raised on the way to it.
Signature(parameters, return_annotation) ==
    IF \/ \E i \in 1..Len(parameters) :
             parameters[i].annotation = AnnotationRaised
       \/ return_annotation = AnnotationRaised
    THEN Raised("TypeError")
    ELSE [parameters |-> parameters, return_annotation |-> return_annotation]

\* downgrade_signature on a signature given with its return annotation.
Downgraded(parameters, return_annotation, object_versions) ==
    Signature(downgrade_signature(parameters, object_versions),
              unwrap_and_migrate_annotation(return_annotation, object_versions))

\* The loop over the registered service configurations.
RECURSIVE ServiceEndpoints(_, _, _, _, _, _)
ServiceEndpoints(configs, node, needs_downgrade, object_versions, i, endpoints) ==
    IF i > Len(configs) THEN endpoints
    ELSE LET path == configs[i].key
             service_config == configs[i].value
             service_warning ==
                IF service_config.warning # PyNone
                THEN [message |-> service_config.warning.message,
                      enabled |-> node.enable_warnings]
                ELSE service_config.warning
             signature ==
                IF needs_downgrade
                THEN downgrade_signature(service_config.signature,
                                         object_versions)
                ELSE service_config.signature
             endpoint == APIEndpoint(path, path, service_config.public_name,
                                     service_config.doc_string, signature,
                                     FALSE, PyNone, service_warning)
         IN ServiceEndpoints(configs, node, needs_downgrade, object_versions,
                             i + 1,
                             IF ~service_config.is_from_lib
                             THEN DictSet(endpoints, path, endpoint)
                             ELSE endpoints)

\* The loop over the registered library configurations.
RECURSIVE LibEndpoints(_, _, _)
LibEndpoints(configs, i, lib_endpoints) ==
    IF i > Len(configs) THEN lib_endpoints
    ELSE LET path == configs[i].key
             lib_config == configs[i].value
             endpoint == LibEndpoint(<<"action", Dot, "execute">>, path,
                                     lib_config.public_name,
                                     lib_config.doc_string,
                                     lib_config.signature, FALSE, PyNone)
         IN LibEndpoints(configs, i + 1, DictSet(lib_endpoints, path, endpoint))

\* The loop over the caller's user-code items.
RECURSIVE CodeEndpoints(_, _, _)
CodeEndpoints(code_items, i, endpoints) ==
    IF i > Len(code_items) THEN endpoints
    ELSE LET code_item == code_items[i]
             path == CodeCall
             unique_path == <<"code", Dot, "call_">> \o code_item.service_func_name
             endpoint == APIEndpoint(path, path, code_item.service_func_name,
                                     "Users custom func", code_item.signature,
                                     FALSE,
                                     DictV(<<[key |-> "uid",
                                              value |-> code_item.id]>>),
                                     PyNone)
         IN CodeEndpoints(code_items, i + 1,
                          DictSet(endpoints, unique_path, endpoint))

\* SyftAPI(...): the fields that are not given keep their defaults.
SyftAPI(node_name, node_uid, endpoints, lib_endpoints, communication_protocol) ==
    [node_name |-> node_name, node_uid |-> node_uid,
     endpoints |-> endpoints, lib_endpoints |-> lib_endpoints,
     api_module |-> PyNone, libs |-> PyNone,
     connection |-> None, signing_key |-> None,
     refresh_api_callback |-> None,
     communication_protocol |-> communication_protocol]

\* SyftAPI.for_user.  node carries what the calls on it answer: the
\* service configurations of the caller's role, the library configurations
\* of the caller and the caller's user-code items.
for_user(node, communication_protocol) ==
    IF node.current_protocol # Dev /\ communication_protocol = Dev
    THEN [raised |-> "ValueError"]
    ELSE
    LET signature_needs_downgrade ==
            IF node.current_protocol = Dev /\ communication_protocol # Dev
            THEN TRUE
            ELSE /\ node.current_protocol # Dev
                 /\ IntOf(node.current_protocol) > IntOf(communication_protocol)
        object_version_for_protocol == get_object_versions(communication_protocol)
        endpoints == ServiceEndpoints(node.service_configs, node,
                                      signature_needs_downgrade,
                                      object_version_for_protocol, 1, <<>>)
        lib_endpoints == LibEndpoints(node.lib_configs, 1, <<>>)
    IN IF /\ signature_needs_downgrade
          /\ \E i \in 1..Len(node.service_configs) :
                /\ ~node.service_configs[i].value.is_from_lib
                /\ "raised" \in DOMAIN
                      Downgraded(node.service_configs[i].value.signature,
                                 Empty, object_version_for_protocol)
       THEN [raised |-> "TypeError"]
       ELSE
       [raised |-> None,
        signature_needs_downgrade |-> signature_needs_downgrade,
        api |-> SyftAPI(node.name, node.id,
                        CodeEndpoints(node.code_items, 1, endpoints),
                        DictV(lib_endpoints), communication_protocol)]

(***************************************************************************)
(*            CreateModel: add_asset and remove_asset (model.py)           *)
(***************************************************************************)
MaxAssets == 3

AssetNames == {"a", "b", "c"}
\* CreateModelAsset(name=..., data=...)
CreateModelAsset(name, data) == [name |-> name, data |-> data]
Assets == {CreateModelAsset(name, data) : name \in AssetNames, data \in {"d1", "d2"}}

\* SyftSuccess("..."), the message given by position: the model classes
\* take their fields by keyword only, so the construction raises.
SyftSuccess_Positional(text) == Raised("TypeError")

\* enumerate(self.asset_list) up to the first asset of that name; 0 if none.
IndexOfName(asset_list, name) ==
    IF \E i \in 1..Len(asset_list) : asset_list[i].name = name
    THEN CHOOSE i \in 1..Len(asset_list) :
            /\ asset_list[i].name = name
            /\ \A j \in 1..(i - 1) : asset_list[j].name # name
    ELSE 0

\* list.remove(x): without the first element equal to x.
ListRemove(list, x) ==
    IF \E i \in 1..Len(list) : list[i] = x
    THEN [j \in 1..(Len(list) - 1) |->
            IF j < (CHOOSE i \in 1..Len(list) :
                        list[i] = x /\ \A k \in 1..(i - 1) : list[k] # x)
            THEN list[j] ELSE list[j + 1]]
    ELSE list

\* An add_asset that appends whatever the list holds.
add_asset_AlwaysAppend(self, asset, force_replace) ==
    [self |-> [self EXCEPT !.asset_list = Append(@, asset)],
     result |-> SyftSuccess([text |-> "Asset added to Model.",
                             asset |-> asset.name, model |-> self.name])]

\* CreateModel.add_asset: the model afterwards, and what is returned.
add_asset(self, asset, force_replace) ==
    IF IndexOfName(self.asset_list, asset.name) # 0
    THEN IF ~force_replace
         THEN [self |-> self,
               result |-> SyftError([text |-> "Asset already exists in Model. Use add_asset(asset, force_replace=True) to replace.",
                                     asset |-> asset.name, model |-> self.name])]
         ELSE [self |-> [self EXCEPT !.asset_list[IndexOfName(self.asset_list, asset.name)] = asset],
               result |-> SyftSuccess_Positional(
                            [text |-> "Asset has been successfully replaced.",
                             asset |-> asset.name])]
    ELSE [self |-> [self EXCEPT !.asset_list = Append(@, asset)],
          result |-> SyftSuccess([text |-> "Asset added to Model.",
                                  asset |-> asset.name, model |-> self.name])]

\* A remove_asset that takes the last asset when the name is absent.
remove_asset_PopLast(self, name) ==
    [self |-> [self EXCEPT !.asset_list =
                  IF @ = <<>> THEN @ ELSE SubSeq(@, 1, Len(@) - 1)],
     result |-> SyftError([text |-> "No asset exists with name", name |-> name])]

\* CreateModel.remove_asset
remove_asset(self, name) ==
    IF IndexOfName(self.asset_list, name) = 0
    THEN [self |-> self,
          result |-> SyftError([text |-> "No asset exists with name",
                                name |-> name])]
    ELSE [self |-> [self EXCEPT !.asset_list =
                      ListRemove(@, @[IndexOfName(@, name)])],
          result |-> SyftSuccess([text |-> "Asset removed from Model.",
                                  asset |-> self.name, model |-> self.name])]

\* A model under construction, with no assets.
AssetInit ==
    /\ create_model = [name |-> "m", asset_list |-> <<>>]
    /\ assetOut = [op |-> "none"]

AddAsset(asset, force_replace) ==
    /\ Len(create_model.asset_list) <= MaxAssets
    /\ \E r \in {add_asset(create_model, asset, force_replace)} :
          /\ create_model' = r.self
          /\ assetOut' = [op |-> "add_asset", asset |-> asset,
                          force_replace |-> force_replace,
                          before |-> create_model.asset_list,
                          result |-> r.result]

RemoveAsset(name) ==
    \E r \in {remove_asset(create_model, name)} :
        /\ create_model' = r.self
        /\ assetOut' = [op |-> "remove_asset", name |-> name,
                        before |-> create_model.asset_list,
                        result |-> r.result]

AssetNext ==
    \/ \E asset \in Assets, force_replace \in BOOLEAN :
          AddAsset(asset, force_replace) /\ UNCHANGED <<regVars, envVars, callVars, treeVars, rebuildVars, lastCall, libVars, sigVars, responses, refVars>>
    \/ \E name \in AssetNames :
          RemoveAsset(name) /\ UNCHANGED <<regVars, envVars, callVars, treeVars, rebuildVars, lastCall, libVars, sigVars, responses, refVars>>

(***************************************************************************)
(*                  ModelRef: hash and load_data (model.py)                *)
(***************************************************************************)
\* The ids a ModelRef holds: [model_code_id, asset1_id], and what the
\* action store can hold under an id.
RefIds == <<"code", "asset">>
Contents == {"v1", "v2"}

\* client.services.action.get(id)
action_get(store, id) == [id |-> id, syft_action_data |-> store[id]]

\* x.hash() of a loaded item, and the digest of a list of such hashes:
\* sha256(serialize(hash_items)).hexdigest()
HashOf(x) == [hash_of |-> x]
Digest(hash_items) == [sha256 |-> hash_items]

\* ModelRef.load_data(context or self_client, wrap_ref_to_obj), with
\* unwrap_action_data at its default and no remote client: the model, then
\* the data of each asset.  loaded: the ids fetched from the store.
load_data(self, store, wrap_ref_to_obj) ==
    [result |-> <<action_get(store, self.syft_action_data[1])>>
                  \o [i \in 1..(Len(self.syft_action_data) - 1) |->
                        action_get(store, self.syft_action_data[i + 1]).syft_action_data],
     loaded |-> self.syft_action_data,
     self |-> IF wrap_ref_to_obj
              THEN [self EXCEPT !.ref_objs =
                      <<action_get(store, self.syft_action_data[1])>>
                        \o [i \in 1..(Len(self.syft_action_data) - 1) |->
                              action_get(store, self.syft_action_data[i + 1]).syft_action_data]]
              ELSE self]

\* The tail of hash: the digest of the hashes of the items, stored and
\* returned.
HashItems(self, action_objs, loaded) ==
    [result |-> Digest([i \in 1..Len(action_objs) |-> HashOf(action_objs[i])]),
     loaded |-> loaded,
     self |-> [self EXCEPT !.syft_action_data_hash =
                 Digest([i \in 1..Len(action_objs) |-> HashOf(action_objs[i])])]]

\* A hash that recomputes on every call.
hash_NoCache(self, recalculate, context, client, store) ==
    IF context = PyNone /\ client = PyNone
    THEN [result |-> Raised("ValueError"), loaded |-> <<>>, self |-> self]
    ELSE HashItems(self, load_data(self, store, FALSE).result,
                   self.syft_action_data)

\* ModelRef.hash(recalculate, context, client)
hash(self, recalculate, context, client, store) ==
    IF context = PyNone /\ client = PyNone
    THEN [result |-> Raised("ValueError"), loaded |-> <<>>, self |-> self]
    ELSE IF context # PyNone /\ context.server = PyNone
    THEN [result |-> Raised("ValueError"), loaded |-> <<>>, self |-> self]
    ELSE IF ~recalculate /\ self.syft_action_data_hash # PyNone
    THEN [result |-> self.syft_action_data_hash, loaded |-> <<>>,
          self |-> self]
    ELSE IF self.ref_objs = <<>>
    THEN HashItems(self, load_data(self, store, FALSE).result,
                   load_data(self, store, FALSE).loaded)
    ELSE HashItems(self, self.ref_objs, <<>>)

Contexts == {PyNone, [server |-> PyNone], [server |-> [root_client |-> "root"]]}
Clients == {PyNone, [client |-> "c1"]}

RefInit ==
    /\ model_ref = [syft_action_data |-> RefIds,
                    syft_action_data_hash |-> PyNone, ref_objs |-> <<>>]
    /\ action_store = [id \in Range(RefIds) |-> "v1"]
    /\ hashOut = [op |-> "none", result |-> PyNone, stored |-> FALSE]

\* stored: the call stored a hash; prev: what the operation before this
\* one was, and what it returned.
Hash(recalculate, context, client) ==
    \E r \in {hash(model_ref, recalculate, context, client, action_store)} :
        /\ model_ref' = r.self
        /\ hashOut' = [op |-> "hash", recalculate |-> recalculate,
                       context |-> context, client |-> client,
                       before |-> model_ref, result |-> r.result,
                       loaded |-> r.loaded,
                       stored |-> /\ r.result # Raised("ValueError")
                                  /\ \/ recalculate
                                     \/ model_ref.syft_action_data_hash = PyNone,
                       prev |-> [op |-> hashOut.op, result |-> hashOut.result,
                                 stored |-> hashOut.stored]]
        /\ UNCHANGED action_store

LoadData(wrap_ref_to_obj) ==
    \E r \in {load_data(model_ref, action_store, wrap_ref_to_obj)} :
        /\ model_ref' = r.self
        /\ hashOut' = [op |-> "load_data", result |-> PyNone,
                       stored |-> FALSE]
        /\ UNCHANGED action_store

\* An object in the store is replaced by another.
StoreSet(id, content) ==
    /\ action_store[id] # content
    /\ action_store' = [action_store EXCEPT ![id] = content]
    /\ hashOut' = [op |-> "set", result |-> PyNone, stored |-> FALSE]
    /\ UNCHANGED model_ref

RefNext ==
    \/ \E recalculate \in BOOLEAN, context \in Contexts, client \in Clients :
          Hash(recalculate, context, client) /\ UNCHANGED <<regVars, envVars, callVars, treeVars, rebuildVars, lastCall, libVars, sigVars, responses, assetVars>>
    \/ \E wrap_ref_to_obj \in BOOLEAN :
          LoadData(wrap_ref_to_obj) /\ UNCHANGED <<regVars, envVars, callVars, treeVars, rebuildVars, lastCall, libVars, sigVars, responses, assetVars>>
    \/ \E id \in Range(RefIds), content \in Contents :
          StoreSet(id, content) /\ UNCHANGED <<regVars, envVars, callVars, treeVars, rebuildVars, lastCall, libVars, sigVars, responses, assetVars>>

(***************************************************************************)
(*                 Signatures handed to downgrade_signature                *)
(***************************************************************************)
MaxDepth == 2

\* The annotations a service signature can carry: plain and versioned
\* classes, and the wrappers around them, nested up to MaxDepth.
Leaves == {Cls("int"), Versioned("Widget", 2), Versioned("Gadget", 1)}

Wrapped(a) ==
    {Alias("List", <<a>>), Generic("list", <<a>>),
     Generic("dict", <<Cls("str"), a>>),
     Alias("Union", <<a, NoneType>>), UnionType(<<a, NoneType>>),
     Alias("Callable", <<ParamList(<<a>>), Cls("int")>>)}

RECURSIVE Annotations(_)
Annotations(depth) ==
    IF depth = 0 THEN Leaves
    ELSE Annotations(depth - 1)
            \cup UNION {Wrapped(a) : a \in Annotations(depth - 1)}

Parameters ==
    {<<Param("x", POK, a, FALSE)>> : a \in Annotations(MaxDepth)}
      \cup {<<Param("x", POK, a, FALSE), Param("y", kind, b, d)>> :
                a \in Annotations(MaxDepth), kind \in {POK, VAR_KEYWORD},
                b \in {Empty, Versioned("Widget", 2)}, d \in BOOLEAN}

ReturnAnnotations ==
    {Empty, Versioned("Widget", 2), Alias("List", <<Versioned("Widget", 2)>>),
     UnionType(<<Versioned("Widget", 2), NoneType>>)}

DowngradeInit == downgraded = [done |-> FALSE]

\* downgrade_signature(signature, get_object_versions(protocol))
Downgrade(parameters, return_annotation, protocol) ==
    /\ ~downgraded.done
    /\ downgraded' = [done |-> TRUE, parameters |-> parameters,
                      return_annotation |-> return_annotation,
                      protocol |-> protocol,
                      result |-> Downgraded(parameters, return_annotation,
                                            get_object_versions(protocol))]

DowngradeNext ==
    \E parameters \in Parameters, return_annotation \in ReturnAnnotations, protocol \in {Protocol1, Protocol2} :
        Downgrade(parameters, return_annotation, protocol) /\ UNCHANGED <<regVars, envVars, callVars, treeVars, rebuildVars, lastCall, libVars, tailVars>>

(***************************************************************************)
(*          The nodes a session is built for, and the tree actions         *)
(***************************************************************************)
SigX == <<Param("x", POK, Cls("int"), FALSE)>>
SigCtx == <<Param("context", POK, Empty, FALSE),
            Param("x", POK, Cls("int"), FALSE)>>
SigBlocking == <<Param("x", POK, Cls("int"), FALSE),
                 Param("blocking", POK, Cls("bool"), TRUE)>>
SigWidget == <<Param("w", POK, Optional(Versioned("Widget", 2)), FALSE)>>

ServiceConfig(public_name, signature, warning, is_from_lib) ==
    [public_name |-> Name(public_name), signature |-> signature,
     warning |-> warning, is_from_lib |-> is_from_lib, doc_string |-> "doc"]
LibConfig(public_name, signature) ==
    [public_name |-> Name(public_name), signature |-> signature,
     doc_string |-> "doc"]

\* The service configurations a role may see.
ServiceConfigs ==
    { [key |-> <<"a", Dot, "b">>,
       value |-> ServiceConfig("b", SigCtx, PyNone, FALSE)],
      \* published under the name of another path's last segment
      [key |-> <<"a", Dot, "c">>,
       value |-> ServiceConfig("b", SigX, PyNone, FALSE)],
      \* below a path that is itself an endpoint
      [key |-> <<"a", Dot, "b", Dot, "c">>,
       value |-> ServiceConfig("c", SigX, PyNone, FALSE)],
      \* declares the reserved keyword
      [key |-> <<"a", Dot, "d">>,
       value |-> ServiceConfig("d", SigBlocking, PyNone, FALSE)],
      \* a segment that names an attribute every APIModule has
      [key |-> <<"path", Dot, "x">>,
       value |-> ServiceConfig("x", SigX, PyNone, FALSE)],
      \* registered from a library
      [key |-> <<"a", Dot, "e">>,
       value |-> ServiceConfig("e", SigX, PyNone, TRUE)],
      \* a versioned type in the signature, and a usage warning
      [key |-> <<"a", Dot, "w">>,
       value |-> ServiceConfig("w", SigWidget, [message |-> "careful"], FALSE)] }

LibConfigs ==
    { \* a versioned type in the signature
      [key |-> <<"np", Dot, "sum">>, value |-> LibConfig("sum", SigWidget)],
      [key |-> <<"np", Dot, "bad">>, value |-> LibConfig("bad", SigBlocking)] }

Uid2 == Value(Cls("UID"), "u2")
CodeItems ==
    { <<>>,
      <<[service_func_name |-> Name("f"), id |-> Uid1, signature |-> SigX]>>,
      <<[service_func_name |-> Name("f"), id |-> Uid1, signature |-> SigX],
        [service_func_name |-> Name("g"), id |-> Uid2,
         signature |-> SigWidget]>>,
      \* two units with the same function name
      <<[service_func_name |-> Name("f"), id |-> Uid1, signature |-> SigX],
        [service_func_name |-> Name("f"), id |-> Uid2,
         signature |-> SigWidget]>> }

\* The registries: ordered, one configuration per path.
Registries(configs) ==
    {r \in SeqsUpTo(configs, MaxEndpoints) :
        \A i, j \in 1..Len(r) : i # j => r[i].key # r[j].key}

Nodes ==
    [name : {"node"}, id : {"n1"}, current_protocol : Protocols,
     enable_warnings : {TRUE},
     service_configs : Registries(ServiceConfigs),
     lib_configs : Registries(LibConfigs),
     code_items : CodeItems]

NoSession == PyNone
NoTreeOp == [op |-> "none"]

TreeInit ==
    /\ heap = <<>>
    /\ syft_api = NoSession
    /\ trees = <<>>
    /\ builds = 0
    /\ treeOut = NoTreeOp

\* The session is built for a caller of the node.
ForUser(node, communication_protocol) ==
    /\ syft_api = NoSession
    /\ \E r \in {for_user(node, communication_protocol)} :
          /\ syft_api' = IF r.raised = None THEN r.api ELSE syft_api
          /\ treeOut' = IF r.raised = None
                        THEN [op |-> "for_user", raised |-> None, node |-> node,
                              current_protocol |-> node.current_protocol,
                              communication_protocol |-> communication_protocol,
                              signature_needs_downgrade |->
                                  r.signature_needs_downgrade]
                        ELSE [op |-> "for_user", raised |-> r.raised,
                              current_protocol |-> node.current_protocol,
                              communication_protocol |-> communication_protocol]
    /\ UNCHANGED <<heap, trees, builds>>

\* The catalogs a session can be constructed over.
Catalogs ==
    {for_user(node, Protocol2).api.endpoints :
        node \in {n \in Nodes : n.current_protocol = Protocol2}}

\* The session is constructed from its fields, as when it is received from
\* the node or built by hand: lib_endpoints keeps its default, None.
Construct(endpoints, communication_protocol) ==
    /\ syft_api = NoSession
    /\ syft_api' = SyftAPI("node", "n1", endpoints, PyNone,
                           communication_protocol)
    /\ treeOut' = [op |-> "SyftAPI", raised |-> None]
    /\ UNCHANGED <<heap, trees, builds>>

\* The effect of an operation that ran, or did not run, generate_endpoints.
Generated(g, op, ran) ==
    /\ heap' = g.heap
    /\ syft_api' = g.api
    /\ builds' = IF ran THEN builds + 1 ELSE builds
    /\ trees' = IF ran /\ g.raised = None
                THEN Append(trees, [libs |-> g.api.libs,
                                    api_module |-> g.api.api_module])
                ELSE trees

\* api.services is read.
Services ==
    /\ syft_api # NoSession
    /\ syft_api.api_module = PyNone => builds < MaxBuilds
    /\ \E g \in {services(heap, syft_api)} :
          /\ Generated(g, "services", syft_api.api_module = PyNone)
          /\ treeOut' = [op |-> "services", raised |-> g.raised,
                         value |-> g.value,
                         ran |-> syft_api.api_module = PyNone,
                         built_before |-> trees # <<>>]

\* api.lib is read.
Lib ==
    /\ syft_api # NoSession
    /\ syft_api.libs = PyNone => builds < MaxBuilds
    /\ \E g \in {lib(heap, syft_api)} :
          /\ Generated(g, "lib", syft_api.libs = PyNone)
          /\ treeOut' = [op |-> "lib", raised |-> g.raised, value |-> g.value,
                         ran |-> syft_api.libs = PyNone,
                         built_before |-> trees # <<>>]

\* api.generate_endpoints() is called, as a refresh does.
GenerateEndpoints ==
    /\ syft_api # NoSession
    /\ builds < MaxBuilds
    /\ \E g \in {generate_endpoints(heap, syft_api)} :
          /\ Generated(g, "generate_endpoints", TRUE)
          /\ treeOut' = [op |-> "generate_endpoints", raised |-> g.raised]

TreeNext ==
    \/ /\ syft_api = NoSession
       /\ \E node \in Nodes, p \in Protocols :
             ForUser(node, p) /\ UNCHANGED <<regVars, envVars, callVars, laterVars>>
    \/ /\ syft_api = NoSession
       /\ \E endpoints \in Catalogs, p \in {Protocol2} :
             Construct(endpoints, p) /\ UNCHANGED <<regVars, envVars, callVars, laterVars>>
    \/ Services /\ UNCHANGED <<regVars, envVars, callVars, laterVars>>
    \/ Lib /\ UNCHANGED <<regVars, envVars, callVars, laterVars>>
    \/ GenerateEndpoints /\ UNCHANGED <<regVars, envVars, callVars, laterVars>>

(***************************************************************************)
(*                    Attribute access on namespace nodes                  *)
(***************************************************************************)
\* The names looked up: children of some node, a name no node has, and
\* names of what every APIModule carries.
AttrNames ==
    {Name("a"), Name("np"), Name("zz"), Name("path"), Name("_add_submodule")}

APIModuleRefs(h) == {Ref(i) : i \in {j \in 1..Len(h) : h[j].cls = "APIModule"}}

\* node.name is read on a namespace node of a tree.
GetAttribute(v, name) ==
    /\ v \in APIModuleRefs(heap)
    /\ \E r \in {__getattribute__(heap, v, name)} :
          treeOut' = [op |-> "__getattribute__", node |-> v, name |-> name,
                      child |-> name \in Children(heap, v),
                      raised |-> r.raised, value |-> r.value]
    /\ UNCHANGED <<heap, syft_api, trees, builds>>

\* hasattr(self.services, service_name), given what self.services was.
has(g, name) ==
    [heap |-> g.heap, api |-> g.api, raised |-> g.raised,
     value |-> hasattr(g.heap, g.value, name),
     child |-> IsRef(g.value) /\ name \in Children(g.heap, g.value)]

\* SyftAPI.has_service
has_service(h, self, service_name) == has(services(h, self), service_name)

\* SyftAPI.has_lib
has_lib(h, self, lib_name) == has(lib(h, self), lib_name)

HasService(name) ==
    /\ syft_api # NoSession
    /\ syft_api.api_module = PyNone => builds < MaxBuilds
    /\ \E g \in {has_service(heap, syft_api, name)} :
          /\ Generated(g, "has_service", syft_api.api_module = PyNone)
          /\ treeOut' = [op |-> "has_service", name |-> name,
                         raised |-> g.raised, value |-> g.value,
                         child |-> g.child]

HasLib(name) ==
    /\ syft_api # NoSession
    /\ syft_api.libs = PyNone => builds < MaxBuilds
    /\ \E g \in {has_lib(heap, syft_api, name)} :
          /\ Generated(g, "has_lib", syft_api.libs = PyNone)
          /\ treeOut' = [op |-> "has_lib", name |-> name,
                         raised |-> g.raised, value |-> g.value,
                         child |-> g.child]

AccessNext ==
    \/ /\ syft_api = NoSession
       /\ \E node \in Nodes, p \in {Protocol2} :
             ForUser(node, p) /\ UNCHANGED <<regVars, envVars, callVars, laterVars>>
    \/ /\ heap # <<>>
       /\ \E v \in APIModuleRefs(heap), name \in AttrNames :
             GetAttribute(v, name) /\ UNCHANGED <<regVars, envVars, callVars, laterVars>>
    \/ /\ syft_api # NoSession
       /\ \E name \in AttrNames :
             HasService(name) /\ UNCHANGED <<regVars, envVars, callVars, laterVars>>
    \/ /\ syft_api # NoSession
       /\ \E name \in AttrNames :
             HasLib(name) /\ UNCHANGED <<regVars, envVars, callVars, laterVars>>

(***************************************************************************)
(*        generate_endpoints statement by statement, with a reader         *)
(***************************************************************************)
NotRead == [read |-> FALSE]

RebuildInit ==
    /\ rebuild = "idle"
    /\ reader = NotRead

\* generate_endpoints up to the assignment of self.libs: the library tree
\* is built and assigned, when the session has library endpoints.
RebuildLibs ==
    /\ syft_api # NoSession
    /\ rebuild = "idle"
    /\ builds < MaxBuilds
    /\ \E l \in {IF syft_api.lib_endpoints # PyNone
                  THEN build_endpoint_tree(heap, syft_api,
                                           syft_api.lib_endpoints.dict,
                                           syft_api.communication_protocol)
                  ELSE [heap |-> heap, raised |-> None,
                        api_module |-> syft_api.libs]} :
          /\ heap' = l.heap
          /\ syft_api' = IF l.raised = None
                         THEN [syft_api EXCEPT !.libs = l.api_module]
                         ELSE syft_api
          /\ rebuild' = IF l.raised = None THEN "libs_set" ELSE "idle"
          /\ builds' = IF l.raised = None THEN builds ELSE builds + 1
          /\ treeOut' = [op |-> "generate_endpoints/libs", raised |-> l.raised]
    /\ UNCHANGED <<trees, reader>>

\* The rest of generate_endpoints: the service tree is built and assigned.
RebuildServices ==
    /\ rebuild = "libs_set"
    /\ \E g \in {SetApiModule(build_endpoint_tree(heap, syft_api,
                                   syft_api.endpoints,
                                   syft_api.communication_protocol),
                               syft_api)} :
          /\ Generated(g, "generate_endpoints", TRUE)
          /\ treeOut' = [op |-> "generate_endpoints", raised |-> g.raised]
    /\ rebuild' = "idle"
    /\ UNCHANGED reader

\* Another thread reads the two trees off the session, as has_service and
\* has_lib or a stub lookup do, here without even running between the two
\* reads.
Observe ==
    /\ syft_api # NoSession
    /\ reader' = [read |-> TRUE, api_module |-> syft_api.api_module,
                  libs |-> syft_api.libs, during |-> rebuild]
    /\ UNCHANGED <<treeVars, rebuild>>

RebuildNext ==
    \/ /\ syft_api = NoSession
       /\ \E node \in Nodes, p \in Protocols :
             ForUser(node, p) /\ UNCHANGED <<regVars, envVars, callVars, laterVars>>
    \/ RebuildLibs /\ UNCHANGED <<regVars, envVars, callVars, lastCall, libVars, sigVars, tailVars>>
    \/ RebuildServices /\ UNCHANGED <<regVars, envVars, callVars, lastCall, libVars, sigVars, tailVars>>
    \/ Observe /\ UNCHANGED <<regVars, envVars, callVars, lastCall, libVars, sigVars, tailVars>>

(***************************************************************************)
(*                       make_call on sessions of all kinds                *)
(***************************************************************************)
NoMakeCall == [done |-> FALSE]

MakeCallInit == lastCall = NoMakeCall

\* The sessions: a live client's, with each of signing key, connection and
\* refresh callback present or not, and one as for_user returns it.
CallSessions ==
    {[TheSession EXCEPT !.signing_key = k, !.connection = c,
                        !.refresh_api_callback = f] :
        k \in {None, ClientKey}, c \in {None, "conn"},
        f \in {None, "callback"}}
    \cup {for_user([name |-> "node", id |-> "n1", current_protocol |-> Protocol2,
                    enable_warnings |-> TRUE,
                    service_configs |-> <<>>, lib_configs |-> <<>>,
                    code_items |-> <<>>], Protocol2).api}

\* What the node answers: the replies above, and requests with and without
\* a change of user-code status, bare, in an Ok and in an Err.
CodeRequest == Request(<<"ActionStoreChange", "UserCodeStatusChange">>)
OtherRequest == Request(<<"ActionStoreChange">>)
RequestReplies ==
    Replies \cup
    {[how |-> "signed", data |-> d] :
        d \in {CodeRequest, Ok(CodeRequest), Err(CodeRequest),
               OtherRequest, Ok(OtherRequest), Ok(Request(<<>>))}}
    \cup {[how |-> "badsig", data |-> Ok(CodeRequest)],
          [how |-> "unsigned", data |-> Ok(CodeRequest)],
          \* signed, and validly, by a key that is not the node's
          [how |-> "otherkey", data |-> [v |-> "r1"]]}

Calls ==
    {SyftAPICall("n1", path, <<>>, <<>>, blocking) :
        path \in {"a.b", "code.request_code_execution"}, blocking \in BOOLEAN}

\* session.make_call(api_call), the node answering with reply.
MakeCall(session, api_call, reply) ==
    \E r \in {make_call(session, api_call, reply)} :
        /\ r.sent = <<>> => reply = DefaultReply
        /\ lastCall' = [done |-> TRUE, session |-> session, reply |-> reply,
                        api_call |-> api_call,
                        result |-> r.result, trace |-> r.trace,
                        sent |-> r.sent]

MakeCallNext ==
    \E session \in CallSessions, api_call \in Calls, reply \in RequestReplies :
        MakeCall(session, api_call, reply) /\ UNCHANGED <<regVars, envVars, callVars, treeVars, rebuildVars, libVars, sigVars, tailVars>>

Init ==
    /\ RegistryInit /\ EnvelopeInit /\ CallInit /\ TreeInit
    /\ RebuildInit /\ MakeCallInit /\ LibInit /\ DowngradeInit
    /\ ResponseInit /\ AssetInit /\ RefInit

SpecRebuild == Init /\ [][RebuildNext]_vars

SpecAccess == Init /\ [][AccessNext]_vars

SpecMakeCall == Init /\ [][MakeCallNext]_vars

SpecLib == Init /\ [][LibNext]_vars

SpecDowngrade == Init /\ [][DowngradeNext]_vars

SpecResponse == Init /\ [][ResponseNext]_vars

SpecAssets == Init /\ [][AssetNext]_vars

SpecRef == Init /\ [][RefNext]_vars

SpecEnvelope == Init /\ [][EnvNext]_vars

SpecCall == Init /\ [][CallNext]_vars

SpecTree == Init /\ [][TreeNext]_vars

(***************************************************************************)
(*                          Claims on the envelope                         *)
(***************************************************************************)

\* C1: the envelope c.sign(K) verifies; with one byte of serialized_message
\* changed, or with another verify key as credentials, it does not.
C1_SignVerifies ==
    validity # NotChecked =>
        /\ origin.tamper = "none" => validity = SyftSuccess(Text("Credentials are valid"))
        /\ origin.tamper \in {"byte", "key"} => validity.cls = "SyftError"

\* C1 witness: an envelope that verified as signed, then had one byte
\* changed, and was checked again.
C1_Witness ==
    /\ origin.fresh_ok
    /\ origin.tamper = "byte"
    /\ validity.cls = "SyftError"

\* C2: debox verifies before it decodes: the bytes are decoded only after
\* the signature check, and only when it succeeded; for a reply that is not
\* signed or does not verify the result is an error value, the payload is
\* never decoded, and nothing of it reaches the caller.
C2_VerifyBeforeDecode ==
    deboxed # NotDeboxed =>
        LET tr == deboxed.trace
            dec == {i \in 1..Len(tr) : tr[i] = "_deserialize"}
        IN /\ \A i \in dec : \E j \in 1..(i - 1) : tr[j] = "is_valid"
           /\ dec # {} => origin.tamper = "none"
           /\ origin.tamper # "none" =>
                 /\ dec = {}
                 /\ deboxed.result \in
                       {SyftError(Text("The result is not signed")),
                        SyftError(Text("The result signature is invalid"))}

\* C2 witness: a reply with a changed byte that still decodes to a payload
\* was opened, and the caller got the error value.
C2_Witness ==
    /\ deboxed # NotDeboxed
    /\ origin.tamper = "byte"
    /\ IsSigned(signed)
    /\ _deserialize(signed.serialized_message) \in Payloads
    /\ deboxed.result = SyftError(Text("The result signature is invalid"))

SpecRegistry == Init /\ [][RegNext]_vars

(***************************************************************************)
(* The registry under threads.  The GIL makes one dict operation atomic,   *)
(* so set_api_for, api_for and get_all_api are single steps; the for loop  *)
(* of get_by_recent_node_uid runs Python code between two steps of the     *)
(* reversed OrderedDict iterator, and other threads run in between.        *)
(***************************************************************************)
RdStart(n) ==
    /\ rd.pc = "idle"
    /\ rd' = [pc |-> "iter", node |-> n,
              di_state |-> api_registry.od_state,
              di_size |-> Len(api_registry.items),
              di_current |-> Len(api_registry.items)]
    /\ UNCHANGED <<api_registry, setLog, lookup>>

\* One turn of the loop: next() on the iterator, then the test of key[0].
RdStep ==
    /\ rd.pc = "iter"
    /\ rd' = IF rd.di_current = 0
             THEN [pc |-> "returned", node |-> rd.node, result |-> None]
             ELSE IF \/ api_registry.od_state # rd.di_state
                     \/ Len(api_registry.items) # rd.di_size
             THEN [pc |-> "raised", node |-> rd.node, result |-> "RuntimeError"]
             ELSE LET e == api_registry.items[rd.di_current]
                  IN IF e.key[1] = Obj(rd.node)
                     THEN [pc |-> "returned", node |-> rd.node,
                           result |-> e.value]
                     ELSE [rd EXCEPT !.di_current = rd.di_current - 1]
    /\ UNCHANGED <<api_registry, setLog, lookup>>

RdFinish ==
    /\ rd.pc \in {"returned", "raised"}
    /\ rd' = RdIdle
    /\ UNCHANGED <<api_registry, setLog, lookup>>

ThreadsNext ==
    \/ \E nu \in Forms(NodeIds), vk \in Forms(KeyIds), api \in Sessions :
          SetApiFor(nu, vk, api) /\ UNCHANGED rd /\ UNCHANGED <<envVars, callVars, treeVars, laterVars>>
    \/ \E n \in NodeIds, k \in KeyIds :
          ApiFor(n, k) /\ UNCHANGED rd /\ UNCHANGED <<envVars, callVars, treeVars, laterVars>>
    \/ GetAllApi /\ UNCHANGED rd /\ UNCHANGED <<envVars, callVars, treeVars, laterVars>>
    \/ \E n \in NodeIds : RdStart(n) /\ UNCHANGED <<envVars, callVars, treeVars, laterVars>>
    \/ RdStep /\ UNCHANGED <<envVars, callVars, treeVars, laterVars>>
    \/ RdFinish /\ UNCHANGED <<envVars, callVars, treeVars, laterVars>>

SpecThreads == Init /\ [][ThreadsNext]_vars

\* C19: the decoded payload cached on a signed envelope, when there is
\* one, is the decoding of the envelope's current serialized_message, in
\* every state the envelope can be in.
C19_CacheMatchesBytes ==
    (IsSigned(signed) /\ signed.cached_deseralized_message # PyNone) =>
        signed.cached_deseralized_message
            = _deserialize(signed.serialized_message)

(***************************************************************************)
(*                     Claims on the invocation pipeline                   *)
(***************************************************************************)
CallDone == callOut # NotCalled
Dispatched == wire # <<>> \/ "sign" \in Range(callOut.trace)
IsError(r) == IsResponse(r) /\ r.cls = "SyftError"

\* The caller's keywords without the control keyword.
CallerKwargs == DictDel(called.kwargs, "blocking")
UnknownKeys ==
    {CallerKwargs[i].key : i \in 1..Len(CallerKwargs)}
        \ Range(ParamNames(stub.signature))
DeclaresVarKeyword(sig) == \E i \in 1..Len(sig) : sig[i].kind = VAR_KEYWORD
DeclaresVarPositional(sig) == \E i \in 1..Len(sig) : sig[i].kind = VAR_POSITIONAL

\* C3: a call with a keyword that is no parameter of the signature, the
\* signature declaring no catch-all keyword parameter, returns a validation
\* error, and no Call is signed or sent.  (Read in the claim's favour: the
\* error names an unknown key when it is the invalid-parameter error; a type
\* error of an earlier keyword may come first.)
C3_UnknownKeywordRejected ==
    (CallDone /\ UnknownKeys # {} /\ ~DeclaresVarKeyword(stub.signature)) =>
        /\ IsError(callOut.result)
        /\ callOut.trace = <<"validate">>
        /\ "valid" \in DOMAIN callOut.result.message =>
              callOut.result.message.key \in UnknownKeys
        /\ ~Dispatched

\* The keywords and the positional arguments whose value does not satisfy
\* the declared type of the parameter they are matched to.
BadKeywords ==
    {i \in 1..Len(CallerKwargs) :
        /\ HasParam(stub.signature, CallerKwargs[i].key)
        /\ ParamOf(stub.signature, CallerKwargs[i].key).annotation # Empty
        /\ ~check_type(CallerKwargs[i].value,
                       ParamOf(stub.signature, CallerKwargs[i].key).annotation)}
BadPositionals ==
    IF CallerKwargs # <<>> \/ DeclaresVarPositional(stub.signature) THEN {}
    ELSE {i \in 1..Min(Len(called.args), Len(stub.signature)) :
            /\ stub.signature[i].annotation # Empty
            /\ ~check_type(called.args[i], stub.signature[i].annotation)}

\* Whether an error message identifies parameter p given value v: its name,
\* the expected type and the actual type.
Identifies(msg, p, v) ==
    /\ "key" \in DOMAIN msg /\ msg.key = p.name
    /\ "expected" \in DOMAIN msg /\ msg.expected = TypeStr(p.annotation)
    /\ "actual" \in DOMAIN msg /\ msg.actual = TypeName(v)

\* C4: a call with an argument, given by keyword or by position, that does
\* not satisfy the declared type of its parameter returns a validation error
\* that identifies the parameter name, the expected and the actual type (of
\* one such argument), and no Call is dispatched.  (Calls whose keywords all
\* name declared parameters: an unknown keyword is reported on its own.)
C4_TypeMismatchReported ==
    (CallDone /\ UnknownKeys = {} /\ (BadKeywords # {} \/ BadPositionals # {})) =>
        /\ IsError(callOut.result)
        /\ \/ \E i \in BadKeywords :
                Identifies(callOut.result.message,
                           ParamOf(stub.signature, CallerKwargs[i].key),
                           CallerKwargs[i].value)
           \/ \E i \in BadPositionals :
                Identifies(callOut.result.message, stub.signature[i],
                           called.args[i])
        /\ ~Dispatched

\* How often a step occurs in the trace of the call.
Count(step) ==
    Cardinality({i \in 1..Len(callOut.trace) : callOut.trace[i] = step})

\* Whether the arguments of the call passed validation.
Validated ==
    prepare_args_and_kwargs(stub, called.args, CallerKwargs,
                            called.inp.autoreload).ok

\* C14: on a stub with a usage warning, the warning is presented only after
\* the arguments passed validation; when the caller declines, nothing is
\* signed or sent and the call returns None, neither an error value nor a
\* result; when the caller accepts, exactly one Call is signed and sent.
C14_DeclinedWarningIsSilentNoOp ==
    (CallDone /\ stub.warning # None) =>
        /\ Count("warning") = (IF Validated THEN 1 ELSE 0)
        /\ Count("warning") = 1 =>
              /\ SubSeq(callOut.trace, 1, 3) = <<"validate", "migrate", "warning">>
              /\ ~called.inp.accept =>
                    /\ callOut.result = PyNone
                    /\ wire = <<>>
                    /\ Count("sign") = 0 /\ Count("send") = 0
              /\ called.inp.accept =>
                    /\ Len(wire) = 1
                    /\ Count("sign") = 1 /\ Count("send") = 1
        /\ Count("warning") = 0 => wire = <<>> /\ IsError(callOut.result)

\* A call on a stub with a warning was validated and declined.
C14_Witness ==
    /\ CallDone /\ stub.warning # None
    /\ Validated /\ ~called.inp.accept
    /\ callOut.result = PyNone

\* The steps of an invocation, in the order of the pipeline; verification
\* of the reply is the type test and the signature test.
StepOrder ==
    <<"validate", "migrate", "sign", "send", "isinstance", "is_valid",
      "_deserialize", "migrate_back">>
StepPos(step) == CHOOSE i \in 1..Len(StepOrder) : StepOrder[i] = step

\* The steps the call went through, the presentation of a warning aside.
Steps == SelectSeq(callOut.trace, LAMBDA e : e \in Range(StepOrder))
InOrder ==
    \A i, j \in 1..Len(Steps) : i < j => StepPos(Steps[i]) < StepPos(Steps[j])

\* The step of the call that failed, if one did.
FailedStep ==
    CASE ~Validated -> "validate"
      [] Validated /\ "send" \in Range(Steps)
           /\ called.inp.reply.how = "unsigned" -> "isinstance"
      [] Validated /\ "send" \in Range(Steps)
           /\ called.inp.reply.how = "badsig" -> "is_valid"
      [] OTHER -> "none"
Declined == "warning" \in Range(callOut.trace) /\ ~called.inp.accept

DispatchedCall == _deserialize(wire[Len(wire)].serialized_message)

C26_CallCarriesProtocol ==
    (libCall.done /\ libCall.sent # <<>>) =>
        /\ DictHas(_deserialize(libCall.sent[1].serialized_message).kwargs,
                   "communication_protocol")
        /\ DictGet(_deserialize(libCall.sent[1].serialized_message).kwargs,
                   "communication_protocol")
              = libCall.fn.communication_protocol

\* The caller's keywords other than the control keyword, and the blocking
\* flag the caller asked for.
OwnKeywords(kwargs) == SelectSeq(kwargs, LAMBDA e : e.key # "blocking")
BlockingAsked(kwargs) ==
    \/ \A i \in 1..Len(kwargs) : kwargs[i].key # "blocking"
    \/ \E i \in 1..Len(kwargs) :
          kwargs[i].key = "blocking" /\ PyBool(kwargs[i].value)

MatchesAny(value, t) == \E i \in 1..Len(t.args) : check_type(value, t.args[i])

\* C28: a value supplied for a parameter of optional type is accepted
\* exactly when it matches one of the alternatives of the type, None
\* included, whether it is passed by position or by keyword.  Stated for
\* the calls that supply that one argument.
C28_OptionalMatchesAnyAlternative ==
    CallDone =>
        /\ ( /\ Len(called.args) = 1 /\ CallerKwargs = <<>>
             /\ IsOptionalAlias(stub.signature[1].annotation) )
              => (Validated <=>
                    MatchesAny(called.args[1], stub.signature[1].annotation))
        /\ ( /\ called.args = <<>> /\ Len(CallerKwargs) = 1
             /\ CallerKwargs[1].key = stub.signature[1].name
             /\ IsOptionalAlias(stub.signature[1].annotation) )
              => (Validated <=>
                    MatchesAny(CallerKwargs[1].value,
                               stub.signature[1].annotation))

\* The parameters a keyword can name, and whether the signature has a
\* catch-all for the other keywords.
Named(sig) ==
    {i \in 1..Len(sig) : sig[i].kind \notin {VAR_POSITIONAL, VAR_KEYWORD}}
HasVarKeyword(sig) == \E i \in 1..Len(sig) : sig[i].kind = VAR_KEYWORD
KeywordOk(sig, e) ==
    IF \E i \in Named(sig) : sig[i].name = e.key
    THEN \A i \in Named(sig) :
            sig[i].name = e.key =>
                \/ sig[i].annotation = Empty
                \/ check_type(e.value, sig[i].annotation)
    ELSE HasVarKeyword(sig)

\* C29: a keyword that names a declared parameter is checked against the
\* type of that parameter, with or without a catch-all in the signature;
\* a keyword that names none is admitted exactly when the signature has a
\* parameter of kind var-keyword, whatever its name.  Stated for the calls
\* without positional arguments.
C29_KeywordsCheckedCatchAllByKind ==
    (CallDone /\ called.args = <<>>) =>
        (Validated <=>
            \A i \in 1..Len(CallerKwargs) :
                KeywordOk(stub.signature, CallerKwargs[i]))

\* C30: on a signature without a catch-all positional parameter, a call
\* that passes validation is dispatched with every positional argument the
\* caller supplied, in the order supplied: none is dropped, neither the
\* one facing a parameter given by keyword nor those beyond the declared
\* parameters.
C30_NoPositionalDropped ==
    ( /\ CallDone /\ wire # <<>>
      /\ \A i \in 1..Len(stub.signature) :
            stub.signature[i].kind # VAR_POSITIONAL )
        => DispatchedCall.args =
              [i \in 1..Len(called.args) |->
                  MigrateValue(called.args[i], stub.communication_protocol)]

\* The declared parameters without a default that the call gave no value,
\* by keyword or by position.
MissingRequired ==
    {i \in Named(stub.signature) :
        /\ ~stub.signature[i].has_default
        /\ ~DictHas(CallerKwargs, stub.signature[i].name)
        /\ Len(called.args) < i}

\* C32: a call that leaves a declared parameter without default without a
\* value, positional or keyword, is rejected by validation with an error
\* value and nothing is dispatched.
C32_MissingRequiredRejected ==
    (CallDone /\ MissingRequired # {}) =>
        /\ wire = <<>>
        /\ IsError(callOut.result)

\* What a library call did.
LibValidated ==
    validate_callable_args_and_kwargs(libCall.args,
                                      DictDel(libCall.kwargs, "blocking"),
                                      libCall.fn.signature,
                                      libCall.inp.autoreload).ok
LibStepPos(step) ==
    CHOOSE i \in 0..Len(libCall.trace) :
        IF step \in Range(libCall.trace) THEN libCall.trace[i] = step
        ELSE i = 0
TraceActive == TraceResult._client # PyNone

\* C21: a library-routed call appends the record of its operation to the
\* trace buffer exactly once and before the Call is dispatched, and only
\* when a trace is active; a call that validation rejects appends nothing
\* and dispatches nothing.
C21_TracedOnceBeforeDispatch ==
    libCall.done =>
        /\ ~LibValidated => TraceResult.result = <<>> /\ libCall.sent = <<>>
        /\ libCall.sent # <<>> =>
              /\ Len(TraceResult.result) = (IF TraceActive THEN 1 ELSE 0)
              /\ TraceActive => LibStepPos("trace") < LibStepPos("send")

\* C23: make_call returns the payload of a reply only when the reply is
\* signed by the key of the node the call was addressed to; a reply that
\* is validly signed by another key, which it carries as its credentials,
\* is answered with an error value.
C23_ReplyFromAddressedNodeOnly ==
    (lastCall.done /\ lastCall.sent # <<>>) =>
        /\ lastCall.reply.how # "signed" => IsError(lastCall.result)
        /\ ~IsError(lastCall.result) =>
              ServerReply(lastCall.reply).credentials = verify_key(ServerKey)

\* C15: make_call on a session without a connection returns the error
\* value that reports the missing connection, raises nothing and sends
\* nothing, whatever the other fields of the session are.
C15_NoConnectionIsErrorValue ==
    (lastCall.done /\ lastCall.session.connection = None) =>
        /\ lastCall.result = SyftError(Text("API connection is None"))
        /\ lastCall.sent = <<>>

\* The payload of a reply: what an Ok wraps, or the data itself.
PayloadOf(reply) ==
    IF IsOkErr(reply.data) /\ reply.data.okerr = "Ok"
    THEN reply.data.value ELSE reply.data

\* The reply is verified and reports that the callable surface changed.
SurfaceChanged(reply) ==
    /\ reply.how = "signed"
    /\ ~(IsOkErr(reply.data) /\ reply.data.okerr = "Err")
    /\ IsRequest(PayloadOf(reply))
    /\ "UserCodeStatusChange" \in Range(PayloadOf(reply).changes)

Refreshes ==
    Cardinality({i \in 1..Len(lastCall.trace) : lastCall.trace[i] = "refresh"})

\* C20: a call whose verified reply carries a request with a user-code
\* status change, wrapped in an Ok or not, invokes the refresh callback of
\* the session exactly once, when one is set; no other call invokes it.
C20_RefreshOnSurfaceChange ==
    (lastCall.done /\ lastCall.sent # <<>>) =>
        Refreshes = (IF /\ SurfaceChanged(lastCall.reply)
                        /\ lastCall.session.refresh_api_callback # None
                     THEN 1 ELSE 0)

(***************************************************************************)
(*                        Claims on the proxy tree                         *)
(***************************************************************************)
\* The descriptors of the session, service and library endpoints alike.
SessionEndpoints ==
    {e.value : e \in Range(syft_api.endpoints)}
        \cup {e.value : e \in Range(syft_api.lib_endpoints.dict)}
DeclaresBlocking(v) == HasParam(v.signature, "blocking")
TreeOps == {"services", "lib", "generate_endpoints"}

\* C8: when an endpoint visible to the caller declares a parameter named
\* blocking, the construction of the session fails: no session holding such
\* an endpoint exists, and no later access to the proxy trees is what raises
\* the reserved-keyword error.
C8_ReservedKeywordFailsConstruction ==
    /\ syft_api # NoSession =>
          \A v \in SessionEndpoints : ~DeclaresBlocking(v)
    /\ treeOut.op \in TreeOps => treeOut.raised # "Exception"

\* The order of protocol versions: the integers, and dev above them.
Rank(p) == IF p = Dev THEN 3 ELSE IntOf(p)
Older(p, q) == Rank(p) < Rank(q)

\* The signature an endpoint was declared with, and the one the catalog
\* has to store for it.
Expected(declared) ==
    IF Older(treeOut.communication_protocol, treeOut.node.current_protocol)
    THEN downgrade_signature(declared,
                             get_object_versions(treeOut.communication_protocol))
    ELSE declared
ServicesAsExpected ==
    \A i \in 1..Len(treeOut.node.service_configs) :
        LET c == treeOut.node.service_configs[i]
        IN ~c.value.is_from_lib =>
              DictGet(syft_api.endpoints, c.key).signature
                  = Expected(c.value.signature)
LibsAsExpected ==
    \A i \in 1..Len(treeOut.node.lib_configs) :
        LET c == treeOut.node.lib_configs[i]
        IN DictGet(syft_api.lib_endpoints.dict, c.key).signature
              = Expected(c.value.signature)
CodeAsExpected ==
    \A i \in 1..Len(treeOut.node.code_items) :
        LET c == treeOut.node.code_items[i]
        IN DictGet(syft_api.endpoints,
                   <<"code", Dot, "call_">> \o c.service_func_name).signature
              = Expected(c.signature)

\* C17: every descriptor of the catalog for_user builds (service, library
\* and user-code endpoints) stores the downgraded form of its declared
\* signature when the negotiated protocol is older than the server's, and
\* the declared signature otherwise.
C17_CatalogSignaturesDowngraded ==
    (treeOut.op = "for_user" /\ treeOut.raised = None) =>
        ServicesAsExpected /\ LibsAsExpected /\ CodeAsExpected

\* The descriptors of the catalog that carry the identifier of a code unit.
DescriptorsOf(code_item) ==
    {i \in 1..Len(syft_api.endpoints) :
        LET v == syft_api.endpoints[i].value
        IN /\ v.pre_kwargs # PyNone
           /\ DictHas(v.pre_kwargs.dict, "uid")
           /\ DictGet(v.pre_kwargs.dict, "uid") = code_item.id
           /\ v.name = code_item.service_func_name}
ServiceCount ==
    Cardinality({i \in 1..Len(treeOut.node.service_configs) :
                    ~treeOut.node.service_configs[i].value.is_from_lib})

\* C22: the catalog for_user builds holds, besides the service endpoints,
\* exactly one descriptor per code unit of the caller, with the unit's
\* identifier bound as uid; none is overwritten, also when two units have
\* the same function name.
C22_OneDescriptorPerCodeUnit ==
    (treeOut.op = "for_user" /\ treeOut.raised = None) =>
        /\ \A i \in 1..Len(treeOut.node.code_items) :
              Cardinality(DescriptorsOf(treeOut.node.code_items[i])) = 1
        /\ Len(syft_api.endpoints)
              = ServiceCount + Len(treeOut.node.code_items)

\* C18: for every pair of server and negotiated protocol version, for_user
\* decides without failing, and it decides to downgrade exactly when the
\* negotiated version is older than the server's, dev being the newest.
C18_DowngradeDecidedForEveryPair ==
    treeOut.op = "for_user" =>
        /\ treeOut.raised = None
        /\ treeOut.signature_needs_downgrade
              = Older(treeOut.communication_protocol, treeOut.current_protocol)

\* C11: the trees of a session are built once, on the first access to
\* services or lib, and then cached: once generate_endpoints has installed
\* trees, no access to services or lib runs it again (also on a session
\* whose lib_endpoints is None).
C11_BuiltOnceThenCached ==
    (treeOut.op \in {"services", "lib"} /\ treeOut.built_before) =>
        ~treeOut.ran

\* C12: a rebuild swaps the trees of a session atomically: a reader never
\* sees the library tree of one generation together with the service tree
\* of another; the two trees it reads were installed by one run of
\* generate_endpoints.
C12_TreesSwappedTogether ==
    (reader.read /\ reader.api_module # PyNone /\ reader.libs # PyNone) =>
        \E i \in 1..Len(trees) :
            /\ trees[i].api_module = reader.api_module
            /\ trees[i].libs = reader.libs

\* C13: reading on a namespace node a name that is not one of its children
\* raises the unknown-member error and yields no value, for every node and
\* every name; and has_service answers False for such a name.
C13_UnknownNameIsUnknownMember ==
    /\ (treeOut.op = "__getattribute__" /\ ~treeOut.child) =>
            treeOut.raised = "SyftAttributeError"
    /\ (treeOut.op \in {"has_service", "has_lib"} /\ treeOut.raised = None
            /\ ~treeOut.child) =>
            treeOut.value = FALSE

\* The walk of the claim: the segments of the module path but the last,
\* then the display name.
LeafPathOf(v) ==
    SubSeq(split(v.module_path, Dot), 1, Len(split(v.module_path, Dot)) - 1)
        \o <<v.name>>
RECURSIVE Walk(_, _, _)
Walk(h, v, names) ==
    IF names = <<>> THEN v
    ELSE IF hasattr(h, v, Head(names))
    THEN Walk(h, getattr(h, v, Head(names)), Tail(names))
    ELSE [missing |-> Head(names)]

\* The walk for endpoint v from root ends at the stub generated for v.
ReachesStubOf(h, root, v) ==
    /\ IsRef(Walk(h, root, LeafPathOf(v)))
    /\ GenerateFor(syft_api, v, syft_api.communication_protocol).raised = None
    /\ h[Walk(h, root, LeafPathOf(v)).ref] =
          WithDoc(GenerateFor(syft_api, v, syft_api.communication_protocol).fn,
                  v.doc_string)

\* C9: once a tree is built, every endpoint of its catalog is reached by
\* walking its module path, the display name taken as the leaf key; whatever
\* the insertion order, and also when a leaf path is a prefix of another
\* path or two endpoints share a leaf key.
C9_EveryEndpointReachable ==
    syft_api # NoSession =>
        /\ syft_api.api_module # PyNone =>
              \A e \in Range(syft_api.endpoints) :
                  ReachesStubOf(heap, syft_api.api_module, e.value)
        /\ syft_api.libs # PyNone =>
              \A e \in Range(syft_api.lib_endpoints.dict) :
                  ReachesStubOf(heap, syft_api.libs, e.value)

\* The leaves and the nesting of the tree below v: every namespace with
\* the list of its children, every leaf with its stub.
RECURSIVE Shape(_, _, _)
Shape(h, v, path) ==
    IF ~IsRef(v) THEN {[path |-> path, kind |-> "value"]}
    ELSE IF h[v.ref].cls # "APIModule"
    THEN {[path |-> path, kind |-> "leaf", stub |-> h[v.ref]]}
    ELSE {[path |-> path, kind |-> "namespace",
           modules |-> DictGet(h[v.ref].dict, Name("_modules"))]}
         \cup UNION {Shape(h, e.value, Append(path, e.key)) :
                        e \in {x \in Range(h[v.ref].dict) :
                                 x.key \notin {Name("_modules"), Name("path")}}}

\* C10: every run of generate_endpoints on a session installs trees with
\* the same leaves and the same nesting as the run before; each run makes
\* new trees, and the session holds the trees of the last run, one service
\* tree and one library tree.  A catalog has its service and its library
\* part: the session is one whose lib_endpoints is set, as for_user sets it.
C10_RebuildIsIdempotent ==
    (syft_api # NoSession /\ syft_api.lib_endpoints # PyNone) =>
        /\ \A i, j \in 1..Len(trees) :
              /\ Shape(heap, trees[i].api_module, <<>>)
                    = Shape(heap, trees[j].api_module, <<>>)
              /\ Shape(heap, trees[i].libs, <<>>)
                    = Shape(heap, trees[j].libs, <<>>)
              /\ i # j => /\ trees[i].api_module # trees[j].api_module
                          /\ trees[i].libs # trees[j].libs
              /\ trees[i].api_module # trees[j].libs
        /\ Len(trees) > 0 =>
              /\ IsRef(syft_api.api_module) /\ IsRef(syft_api.libs)
              /\ syft_api.api_module = trees[Len(trees)].api_module
              /\ syft_api.libs = trees[Len(trees)].libs

\* Two runs on a session whose service tree has a namespace with a leaf
\* below it and whose library tree has a leaf.
C10_Witness ==
    /\ Len(trees) = 2
    /\ \E n \in Shape(heap, syft_api.api_module, <<>>) :
          n.kind = "leaf" /\ Len(n.path) = 2
    /\ \E n \in Shape(heap, syft_api.libs, <<>>) : n.kind = "leaf"

(***************************************************************************)
(*                          Claims on the registry                         *)
(***************************************************************************)

\* C5: api_for(service, caller) is the session most recently registered for
\* exactly that pair, or nothing when the pair was never registered; so a
\* registration for one pair changes no other pair's answer.
C5_ApiForIsLastForPair ==
    /\ \A n \in NodeIds, k \in KeyIds :
          api_for(api_registry, Obj(n), Obj(k)) = LastForPair(n, k)
    /\ lookup.op = "api_for" => lookup.result = LastForPair(lookup.node, lookup.key)

\* C5 witness: two callers of one service hold different sessions, one of
\* them registered twice, and api_for has just answered for it.
C5_Witness ==
    /\ lookup.op = "api_for"
    /\ lookup.result \in Sessions
    /\ \E k \in KeyIds \ {lookup.key} :
          /\ LastForPair(lookup.node, k) \in Sessions
          /\ LastForPair(lookup.node, k) # lookup.result
    /\ Cardinality({i \in 1..Len(setLog) :
            setLog[i][1] = lookup.node /\ setLog[i][2] = lookup.key}) >= 2

\* C6: get_by_recent_node_uid(service) is the session passed to the most
\* recent set_api_for call for that service, or nothing when there was none.
C6_RecentIsLastForNode ==
    /\ \A n \in NodeIds :
          get_by_recent_node_uid(api_registry, Obj(n)) = LastForNode(n)
    /\ lookup.op = "get_by_recent_node_uid" => lookup.result = LastForNode(lookup.node)

\* C7: registry operations running in different threads are serialized: a
\* lookup or iteration concurrent with a registration never fails.
C7_IterationNeverFails == rd.pc # "raised"


(***************************************************************************)
(*                     Claims on downgrade_signature                       *)
(***************************************************************************)
\* The annotation the downgrade is to produce: every versioned class with
\* versions registered for the target replaced by its highest such
\* version, at any depth, and everything around it as it was.
RECURSIVE Migrated(_, _)
Migrated(annotation, protocol) ==
    IF annotation.k = "class"
    THEN IF /\ "version" \in DOMAIN annotation
            /\ DictHas(get_object_versions(protocol), annotation.name)
         THEN Versioned(annotation.name,
                        MaxOf(DictGet(get_object_versions(protocol),
                                      annotation.name)))
         ELSE annotation
    ELSE IF annotation.k = "paramlist"
    THEN ParamList([i \in 1..Len(annotation.items) |->
                        Migrated(annotation.items[i], protocol)])
    ELSE IF annotation.k \in {"alias", "generic", "uniontype"}
    THEN [annotation EXCEPT !.args =
            [i \in 1..Len(annotation.args) |->
                Migrated(annotation.args[i], protocol)]]
    ELSE annotation

\* The wrappers the code rebuilds: typing aliases other than Callable, and
\* builtin generics.
RECURSIVE Rebuildable(_)
Rebuildable(annotation) ==
    IF annotation.k \in {"alias", "generic"}
    THEN /\ annotation.origin # "Callable"
         /\ \A i \in 1..Len(annotation.args) : Rebuildable(annotation.args[i])
    ELSE annotation.k \in {"class", "empty"}

\* C24: downgrade_signature returns a signature with the same parameters
\* in the same order, each with its name, kind and default, and with every
\* versioned class in the parameter annotations and in the return
\* annotation replaced by its variant for the target protocol, every other
\* leaf unchanged and every wrapper rebuilt with the same arguments in the
\* same order, at any depth.
C24_SignatureDowngraded ==
    downgraded.done =>
        /\ "raised" \notin DOMAIN downgraded.result
        /\ Len(downgraded.result.parameters) = Len(downgraded.parameters)
        /\ \A i \in 1..Len(downgraded.parameters) :
              downgraded.result.parameters[i] =
                [downgraded.parameters[i] EXCEPT !.annotation =
                    Migrated(downgraded.parameters[i].annotation,
                             downgraded.protocol)]
        /\ downgraded.result.return_annotation =
              Migrated(downgraded.return_annotation, downgraded.protocol)


(***************************************************************************)
(*                   Claims on library-routed calls                        *)
(***************************************************************************)
\* The Call a library call handed to the transport, and its action record.
LibDispatched == _deserialize(libCall.sent[1].serialized_message)
LibAction == LibDispatched.args[1]

\* C31: a library-routed call that passes validation, with positional or
\* keyword arguments, dispatches exactly one Call on the path
\* action.execute whose only argument is one action record: its module
\* and operation are the module path split at its last dot, with one
\* reference per positional argument in order and one reference per
\* keyword argument under the same key.
C31_LibCallDispatchesOneAction ==
    (libCall.done /\ LibValidated) =>
        /\ Len(libCall.sent) = 1
        /\ LibDispatched.path = "action.execute"
        /\ Len(LibDispatched.args) = 1
        /\ LibAction.type = "Action"
        /\ <<LibAction.path, LibAction.op>> = rsplit(libCall.fn.module_path)
        /\ Len(LibAction.args) <= Len(libCall.args)
        /\ \A i \in 1..Len(LibAction.args) :
              LibAction.args[i] = Pointer(libCall.args[i]).syft_lineage_id
        /\ \A i \in 1..Len(OwnKeywords(libCall.kwargs)) :
              /\ DictHas(LibAction.kwargs, OwnKeywords(libCall.kwargs)[i].key)
              /\ DictGet(LibAction.kwargs, OwnKeywords(libCall.kwargs)[i].key)
                    = Pointer(OwnKeywords(libCall.kwargs)[i].value).syft_lineage_id


(***************************************************************************)
(*                      Claims on response messages                        *)
(***************************************************************************)
\* C33: for a message of any of the classes the three status views agree:
\* its truth value is true exactly when is_ok() is, and is_ok() is true
\* exactly when is_err() is false.
C33_StatusViewsAgree ==
    \A i \in 1..Len(responses) :
        /\ responses[i].bool <=> responses[i].is_ok
        /\ responses[i].is_ok <=> ~responses[i].is_err


\* The errors made by from_exception.
FromExceptions == {i \in 1..Len(responses) : responses[i].op = "from_exception"}

\* C34: from_exception discloses detail only on request.  Without
\* include_traceback the error has no trace, and for an exception that is
\* not a SyftException the message is fixed by the exception's type: two
\* such exceptions of one type give equal errors whatever their texts.
\* The trace and the exception's text are in the error only with
\* include_traceback.
C34_DetailOnlyOnRequest ==
    /\ \A i \in FromExceptions :
          /\ ~responses[i].include_traceback => responses[i].r.tb = PyNone
          /\ ( \/ responses[i].r.tb # PyNone
               \/ (~responses[i].exc.syft /\ "exc" \in DOMAIN responses[i].r.message) )
                => responses[i].include_traceback
    /\ \A i, j \in FromExceptions :
          ( /\ ~responses[i].include_traceback /\ ~responses[j].include_traceback
            /\ ~responses[i].exc.syft /\ ~responses[j].exc.syft
            /\ responses[i].exc.type = responses[j].exc.type
            /\ responses[i].r.cls = responses[j].r.cls )
              => responses[i].r = responses[j].r

\* Two exceptions of one type with different texts were turned into errors
\* without traceback, and with it the text and the trace were disclosed.
C34_Witness ==
    /\ Len(responses) = 2
    /\ FromExceptions = {1, 2}
    /\ ~responses[1].exc.syft /\ ~responses[2].exc.syft
    /\ ~responses[1].include_traceback /\ ~responses[2].include_traceback
    /\ responses[1].exc.type = responses[2].exc.type
    /\ responses[1].exc.text # responses[2].exc.text
    /\ responses[1].r = responses[2].r


(***************************************************************************)
(*                    Claims on the assets of a model                      *)
(***************************************************************************)
NamesOf(asset_list) == {asset_list[i].name : i \in 1..Len(asset_list)}
IsSuccess(r) == IsResponse(r) /\ r.cls = "SyftSuccess"

\* C35: starting from a model without assets, after any sequence of
\* add_asset calls, with either value of force_replace, and remove_asset
\* calls, no two entries of asset_list have the same name.
C35_AssetNamesDistinct ==
    \A i, j \in 1..Len(create_model.asset_list) :
        i # j => create_model.asset_list[i].name # create_model.asset_list[j].name

\* An asset was added under a name the full list already held.
C35_Witness ==
    /\ assetOut.op = "add_asset"
    /\ assetOut.asset.name \in NamesOf(assetOut.before)
    /\ Len(assetOut.before) = Cardinality(AssetNames)
    /\ assetOut.asset \notin Range(assetOut.before)

\* C36: add_asset of a name already present without force_replace, and
\* remove_asset of a name that is absent, return an error value, not an
\* exception, and leave asset_list as it was.
C36_ErrorsLeaveModelUnchanged ==
    /\ ( /\ assetOut.op = "add_asset"
         /\ assetOut.asset.name \in NamesOf(assetOut.before)
         /\ ~assetOut.force_replace )
          => /\ IsError(assetOut.result)
             /\ create_model.asset_list = assetOut.before
    /\ ( /\ assetOut.op = "remove_asset"
         /\ assetOut.name \notin NamesOf(assetOut.before) )
          => /\ IsError(assetOut.result)
             /\ create_model.asset_list = assetOut.before

\* A name that is absent was removed from a model that holds assets.
C36_Witness ==
    /\ assetOut.op = "remove_asset"
    /\ assetOut.name \notin NamesOf(assetOut.before)
    /\ assetOut.before # <<>>
    /\ IsError(assetOut.result)

\* The list after a replacement: the new asset where the one of its name
\* was, everything else as before.
Replaced(before, asset) ==
    [i \in 1..Len(before) |->
        IF before[i].name = asset.name THEN asset ELSE before[i]]

\* C37: add_asset with force_replace for a name already present puts the
\* asset at the index of the old one, leaves the length and the other
\* entries as they were, and returns a success value; add_asset of a new
\* name appends it and returns a success value.
C37_ReplaceInPlaceAppendNew ==
    assetOut.op = "add_asset" =>
        /\ ( /\ assetOut.asset.name \in NamesOf(assetOut.before)
             /\ assetOut.force_replace )
              => /\ create_model.asset_list
                      = Replaced(assetOut.before, assetOut.asset)
                 /\ IsSuccess(assetOut.result)
        /\ assetOut.asset.name \notin NamesOf(assetOut.before)
              => /\ create_model.asset_list
                      = Append(assetOut.before, assetOut.asset)
                 /\ IsSuccess(assetOut.result)


(***************************************************************************)
(*                         Claims on ModelRef.hash                         *)
(***************************************************************************)
\* The call was given a context with a server, or a client.
HashArgsOk ==
    /\ ~(hashOut.context = PyNone /\ hashOut.client = PyNone)
    /\ ~(hashOut.context # PyNone /\ hashOut.context.server = PyNone)

\* The components of the ref at the call: the objects it holds in
\* ref_objs or, when it holds none, those its ids name in the store, the
\* model first and then the data of the assets.
Components ==
    IF hashOut.before.ref_objs # <<>> THEN hashOut.before.ref_objs
    ELSE [i \in 1..Len(RefIds) |->
            IF i = 1 THEN action_get(action_store, RefIds[1])
            ELSE action_store[RefIds[i]]]
ComponentsDigest == Digest([i \in 1..Len(Components) |-> HashOf(Components[i])])

==========================================================================
